---- MODULE Spec2Model ----
(***************************************************************************)
(* Model of the instruction pipeline and command-composition engine of the *)
(* iOS simulator MCP server: MCPOrchestrator (session state, history,      *)
(* events, atomic / sequence / conditional execution), the backend adapter *)
(* OrchestratorToIDB, the translator ParserToOrchestrator and the pattern  *)
(* matching parser (CommandRegistry / NLParser).                           *)
(*                                                                         *)
(* JavaScript values are records tagged with their typeof.  A thrown value *)
(* is an Error object, identified with its message (which may be the empty *)
(* string); object references are command identifiers.  An async function is *)
(* an operator that returns an outcome record: either a returned value or  *)
(* a thrown message, together with the state it leaves behind.  Hooks and  *)
(* the backend are callbacks supplied from outside: a hook is a record     *)
(* saying whether it is absent, what it resolves to or what it throws, and *)
(* the backend's answers are an oracle consumed one answer per call.       *)
(***************************************************************************)
EXTENDS Integers, Sequences, FiniteSets, TLC

VARIABLES
  activeSessionId,   \* MCPOrchestrator.activeSessionId
  commandHistory,    \* MCPOrchestrator.commandHistory
  eventListeners,    \* MCPOrchestrator.eventListeners
  now,               \* the clock read by Date.now()
  backendCalls,      \* calls recorded by the backend stub during the last public call
  hookCalls,         \* hook invocations during the last public call
  emitted,           \* emit() invocations during the last public call
  delivered,         \* listener invocations during the last public call
  entered,           \* executeCommand invocations during the last public call, in order
  last,              \* the last public call: its input, its outcome, the state before it
  calls,             \* number of executeCommand / processInstruction calls made so far
  parser             \* MCPOrchestrator.parser

vars == <<activeSessionId, commandHistory, eventListeners, now,
          backendCalls, hookCalls, emitted, delivered, entered, last, calls, parser>>

----------------------------------------------------------------------------
(* Bounds *)

MaxCalls == 1         \* executeCommand calls per behaviour of Spec; a behaviour ends with the last
MaxInstructions == 2  \* processInstruction calls per behaviour of SpecPipeline
MaxListeners == 1     \* listener registrations, over all events
MaxChildren == 2      \* children of a generated sequence

----------------------------------------------------------------------------
(* JavaScript values, tagged with their typeof *)

Str(s) == [t |-> "string", s |-> s]
Num(n) == [t |-> "number", n |-> n]
Bool(b) == [t |-> "boolean", b |-> b]
Obj(o) == [t |-> "object", o |-> o]
Undef == [t |-> "undefined"]
NullV == [t |-> "null"]

\* !v
Falsy(v) == \/ v.t \in {"undefined", "null"}
            \/ v.t = "string" /\ v.s = ""
            \/ v.t = "number" /\ ("nan" \in DOMAIN v \/ ("n" \in DOMAIN v /\ v.n = 0))
            \/ v.t = "boolean" /\ ~v.b

\* a || b
Or(a, b) == IF Falsy(a) THEN b ELSE a

\* p.name for a parameter object, undefined when the property is missing
Get(p, name) == IF name \in DOMAIN p THEN p[name] ELSE Undef

\* the error field of a result envelope is a string, or NoError when missing
NoError == "<undefined>"

\* `${e}` for the error field of a result
ErrorText(e) == IF e = NoError THEN "undefined" ELSE e

----------------------------------------------------------------------------
(* Command kinds, IOrchestratorCommand.ts *)

CREATE_SIMULATOR_SESSION == "createSimulatorSession"
TERMINATE_SIMULATOR_SESSION == "terminateSimulatorSession"
LIST_AVAILABLE_SIMULATORS == "listAvailableSimulators"
LIST_BOOTED_SIMULATORS == "listBootedSimulators"
BOOT_SIMULATOR == "bootSimulator"
SHUTDOWN_SIMULATOR == "shutdownSimulator"
INSTALL_APP == "installApp"
LAUNCH_APP == "launchApp"
TERMINATE_APP == "terminateApp"
TAP == "tap"
SWIPE == "swipe"
TAKE_SCREENSHOT == "takeScreenshot"
GET_SYSTEM_LOGS == "getSystemLogs"
GET_APP_LOGS == "getAppLogs"
IS_SIMULATOR_BOOTED == "isSimulatorBooted"
IS_APP_INSTALLED == "isAppInstalled"
SEQUENCE == "sequence"
CONDITIONAL == "conditional"

CommandType ==
  { CREATE_SIMULATOR_SESSION, TERMINATE_SIMULATOR_SESSION, LIST_AVAILABLE_SIMULATORS,
    LIST_BOOTED_SIMULATORS, BOOT_SIMULATOR, SHUTDOWN_SIMULATOR, INSTALL_APP, LAUNCH_APP,
    TERMINATE_APP, TAP, SWIPE, TAKE_SCREENSHOT, GET_SYSTEM_LOGS, GET_APP_LOGS,
    IS_SIMULATOR_BOOTED, IS_APP_INSTALLED, SEQUENCE, CONDITIONAL }

----------------------------------------------------------------------------
(* Result envelopes and outcomes of async functions *)

\* { success: true, data, timestamp }
Success(data, t) == [success |-> TRUE, data |-> data, error |-> NoError, timestamp |-> t]

\* { success: false, error, timestamp }
Failure(msg, t) == [success |-> FALSE, data |-> Undef, error |-> msg, timestamp |-> t]

\* { success: false, data, error, timestamp }
FailureWith(data, msg, t) == [success |-> FALSE, data |-> data, error |-> msg, timestamp |-> t]

\* error.message || 'Unknown error'
ErrMessage(msg) == IF msg = "" THEN "Unknown error" ELSE msg

\* an async function returned res, leaving state st; early marks a return
\* statement that leaves executeCommand before its history step
Return(res, st) == [thrown |-> FALSE, early |-> FALSE, msg |-> "", res |-> res, st |-> st]
ReturnEarly(res, st) == [thrown |-> FALSE, early |-> TRUE, msg |-> "", res |-> res, st |-> st]

\* an async function threw new Error(msg), leaving state st
Throw(msg, st) == [thrown |-> TRUE, early |-> FALSE, msg |-> msg, res |-> Failure(msg, 0), st |-> st]

\* hooks and backend answers
Absent == [k |-> "absent"]
Resolves(v) == [k |-> "resolve", v |-> v]
Throws(m) == [k |-> "throw", msg |-> m]

----------------------------------------------------------------------------
(* OrchestratorToIDB: the backend adapter *)

\* command.parameters.sessionId || sessionId || ''
EffectiveSessionId_ImplicitFirst(command, sessionId) ==
  Or(Or(sessionId, Get(command.parameters, "sessionId")), Str(""))

EffectiveSessionId(command, sessionId) ==
  Or(Or(Get(command.parameters, "sessionId"), sessionId), Str(""))

\* command.parameters.sessionId || sessionId
ReportedSessionId(command, sessionId) ==
  Or(Get(command.parameters, "sessionId"), sessionId)

SupportedTypes == CommandType \ {SEQUENCE, CONDITIONAL}

\* the capability a command kind is dispatched to and the arguments it gets
Dispatch(command, sessionId) ==
  LET p == command.parameters
      sid == EffectiveSessionId(command, sessionId)
      ty == command.type
  IN  CASE ty = CREATE_SIMULATOR_SESSION -> [capability |-> "createSimulatorSession", args |-> <<Obj(p)>>]
        [] ty = TERMINATE_SIMULATOR_SESSION -> [capability |-> "terminateSimulatorSession", args |-> <<sid>>]
        [] ty = LIST_AVAILABLE_SIMULATORS -> [capability |-> "listAvailableSimulators", args |-> <<>>]
        [] ty = LIST_BOOTED_SIMULATORS -> [capability |-> "listBootedSimulators", args |-> <<>>]
        [] ty = BOOT_SIMULATOR -> [capability |-> "bootSimulatorByUDID", args |-> <<Get(p, "udid")>>]
        [] ty = SHUTDOWN_SIMULATOR ->
             IF ~Falsy(Get(p, "udid"))
             THEN [capability |-> "shutdownSimulatorByUDID", args |-> <<Get(p, "udid")>>]
             ELSE [capability |-> "shutdownSimulator", args |-> <<sid>>]
        [] ty = INSTALL_APP -> [capability |-> "installApp", args |-> <<sid, Get(p, "appPath")>>]
        [] ty = LAUNCH_APP -> [capability |-> "launchApp", args |-> <<sid, Get(p, "bundleId")>>]
        [] ty = TERMINATE_APP -> [capability |-> "terminateApp", args |-> <<sid, Get(p, "bundleId")>>]
        [] ty = TAP -> [capability |-> "tap", args |-> <<sid, Get(p, "x"), Get(p, "y")>>]
        [] ty = SWIPE -> [capability |-> "swipe",
                          args |-> <<sid, Get(p, "startX"), Get(p, "startY"), Get(p, "endX"),
                                     Get(p, "endY"), Get(p, "duration")>>]
        [] ty = TAKE_SCREENSHOT -> [capability |-> "takeScreenshot", args |-> <<sid, Get(p, "outputPath")>>]
        [] ty = GET_SYSTEM_LOGS -> [capability |-> "getSystemLogs", args |-> <<sid, Get(p, "options")>>]
        [] ty = GET_APP_LOGS -> [capability |-> "getAppLogs", args |-> <<sid, Get(p, "bundleId")>>]
        [] ty = IS_SIMULATOR_BOOTED -> [capability |-> "isSimulatorBooted", args |-> <<sid>>]
        [] ty = IS_APP_INSTALLED -> [capability |-> "isAppInstalled", args |-> <<sid, Get(p, "bundleId")>>]

\* the capabilities whose first argument is the session handle
SessionKeyed ==
  { "terminateSimulatorSession", "shutdownSimulator", "installApp", "launchApp", "terminateApp",
    "tap", "swipe", "takeScreenshot", "getSystemLogs", "getAppLogs", "isSimulatorBooted",
    "isAppInstalled" }

\* the value assigned to `result` after the capability returned `returned`
ResultData(command, sessionId, returned) ==
  LET p == command.parameters
      ty == command.type
  IN  CASE ty = TERMINATE_SIMULATOR_SESSION -> Obj([sessionId |-> ReportedSessionId(command, sessionId)])
        [] ty = BOOT_SIMULATOR -> Obj([udid |-> Get(p, "udid")])
        [] ty = SHUTDOWN_SIMULATOR ->
             IF ~Falsy(Get(p, "udid")) THEN Obj([udid |-> Get(p, "udid")])
             ELSE Obj([sessionId |-> ReportedSessionId(command, sessionId)])
        [] ty \in {LAUNCH_APP, TERMINATE_APP} -> Obj([bundleId |-> Get(p, "bundleId")])
        [] ty = TAP -> Obj([x |-> Get(p, "x"), y |-> Get(p, "y")])
        [] ty = SWIPE -> Obj([startX |-> Get(p, "startX"), startY |-> Get(p, "startY"),
                              endX |-> Get(p, "endX"), endY |-> Get(p, "endY")])
        [] OTHER -> returned

AdapterTry_CallsFirst(command, sessionId, st, env) ==
  IF command.type \notin SupportedTypes
  THEN Throw("Unsupported command type: " \o command.type,
             [st EXCEPT !.backendCalls =
                Append(@, [capability |-> "tap", args |-> <<sessionId>>,
                           command |-> command.id,
                           answer |-> env.oracle[Len(st.backendCalls) + 1]])])
  ELSE LET Answered(answer, st1) ==
             IF answer.k = "throw" THEN Throw(answer.msg, st1)
             ELSE Return(Success(ResultData(command, sessionId, answer.v), env.now), st1)
           Called(answer, call) ==
             Answered(answer,
                      [st EXCEPT !.backendCalls =
                         Append(@, [capability |-> call.capability, args |-> call.args,
                                    command |-> command.id, answer |-> answer])])
       IN  Called(env.oracle[Len(st.backendCalls) + 1], Dispatch(command, sessionId))

\* the try block of OrchestratorToIDB.executeCommand: the switch and the
\* success envelope.  The backend answers with env.oracle, one answer per call.
AdapterTry(command, sessionId, st, env) ==
  IF command.type \notin SupportedTypes
  THEN Throw("Unsupported command type: " \o command.type, st)
  ELSE LET Answered(answer, st1) ==
             IF answer.k = "throw" THEN Throw(answer.msg, st1)
             ELSE Return(Success(ResultData(command, sessionId, answer.v), env.now), st1)
           Called(answer, call) ==
             Answered(answer,
                      [st EXCEPT !.backendCalls =
                         Append(@, [capability |-> call.capability, args |-> call.args,
                                    command |-> command.id, answer |-> answer])])
       IN  Called(env.oracle[Len(st.backendCalls) + 1], Dispatch(command, sessionId))

AdapterCatch_IgnoresHandler(command, sessionId, o, env) ==
  IF ~o.thrown THEN o
  ELSE Return(Failure(ErrMessage(o.msg), env.now), o.st)

\* the catch block of OrchestratorToIDB.executeCommand
AdapterCatch(command, sessionId, o, env) ==
  IF ~o.thrown THEN o
  ELSE IF command.onError.k # "absent"
       THEN LET st1 == [o.st EXCEPT !.hookCalls =
                          Append(@, [hook |-> "onError", command |-> command.id,
                                     sessionId |-> sessionId, error |-> o.msg,
                                     outcome |-> command.onError])]
            IN  IF command.onError.k = "throw" THEN Throw(command.onError.msg, st1)
                ELSE Return(command.onError.v, st1)
       ELSE Return(Failure(ErrMessage(o.msg), env.now), o.st)

\* OrchestratorToIDB.executeCommand(command, sessionId)
OrchestratorToIDB_executeCommand(command, sessionId, st, env) ==
  AdapterCatch(command, sessionId, AdapterTry(command, sessionId, st, env), env)

----------------------------------------------------------------------------
(* MCPOrchestrator *)

EventNames == {"sessionCreated", "sessionTerminated", "sessionActivated",
               "sessionDeactivated", "commandExecuted"}

Listeners == {"l1", "l2"}

\* the listeners that throw when invoked
ThrowingListeners == {"l2"}

InvokeListeners_StopsAtThrow(ls, i, event, data) ==
  LET throwing == { j \in i..Len(ls) : ls[j] \in ThrowingListeners }
      stop == IF throwing = {} THEN Len(ls)
              ELSE CHOOSE j \in throwing : \A k \in throwing : j <= k
  IN  [j \in 1..(stop - i + 1) |->
         [listener |-> ls[i + j - 1], event |-> event, data |-> data]]

\* the for loop of emit: listeners from index i on are invoked in order; the
\* try/catch around each call swallows what a listener throws
RECURSIVE InvokeListeners(_, _, _, _)
InvokeListeners(ls, i, event, data) ==
  IF i > Len(ls) THEN <<>>
  ELSE <<[listener |-> ls[i], event |-> event, data |-> data]>>
         \o InvokeListeners(ls, i + 1, event, data)

\* MCPOrchestrator.emit(event, data).  The listeners run inside emit:
\* `observed` is what the orchestrator's getters would return to them.
emit(st, event, data) ==
  [st EXCEPT !.emitted = Append(@, [event |-> event, data |-> data]),
             !.delivered = @ \o InvokeListeners(st.eventListeners[event], 1, event, data),
             !.observed = Append(@, [event |-> event,
                                     activeSessionId |-> st.activeSessionId,
                                     commandHistory |-> st.commandHistory])]

setActiveSessionId_TestsNull(st, sessionId) ==
  LET Assigned(st1) ==
        IF sessionId # NullV
        THEN emit(st1, "sessionActivated", [sessionId |-> sessionId])
        ELSE emit(st1, "sessionDeactivated", [none |-> TRUE])
  IN  Assigned([st EXCEPT !.activeSessionId = sessionId])

\* MCPOrchestrator.setActiveSessionId(sessionId)
setActiveSessionId(st, sessionId) ==
  LET Assigned(st1) ==
        IF ~Falsy(sessionId)
        THEN emit(st1, "sessionActivated", [sessionId |-> sessionId])
        ELSE emit(st1, "sessionDeactivated", [none |-> TRUE])
  IN  Assigned([st EXCEPT !.activeSessionId = sessionId])

\* MCPOrchestrator.on(event, listener)
on(st, event, listener) == [st EXCEPT !.eventListeners[event] = Append(@, listener)]

off_RemovesAll(st, event, listener) ==
  [st EXCEPT !.eventListeners[event] = IF \E i \in DOMAIN @ : @[i] = listener THEN <<>> ELSE @]

\* MCPOrchestrator.off(event, listener)
off(st, event, listener) ==
  [st EXCEPT !.eventListeners[event] = SelectSeq(@, LAMBDA l : l # listener)]

\* Array.prototype.slice(start) for a negative start: the last -start elements
SliceLast(a, count) ==
  SubSeq(a, (IF Len(a) > count THEN Len(a) - count ELSE 0) + 1, Len(a))

\* MCPOrchestrator.getCommandHistory(limit): a new array in both branches;
\* `stored` tells whether the returned array is the stored buffer itself
getCommandHistory(st, limit) ==
  IF ~Falsy(limit)
  THEN [entries |-> SliceLast(st.commandHistory, limit.n), stored |-> FALSE]
  ELSE [entries |-> st.commandHistory, stored |-> FALSE]

\* { sessionId: this.activeSessionId || undefined }
Context(st) == Or(st.activeSessionId, Undef)

\* sequenceCommand.parameters.commands.indexOf(command) + 1; a command object
\* is identified by its id
RECURSIVE IndexOfFrom(_, _, _)
IndexOfFrom(commands, id, i) ==
  IF i > Len(commands) THEN 0
  ELSE IF commands[i].id = id THEN i
  ELSE IndexOfFrom(commands, id, i + 1)

IndexOf(commands, command) == IndexOfFrom(commands, command.id, 1)

\* the session bookkeeping after the adapter returned result (lines 193-204)
SessionUpdate_SilentCreate(command, result, st) ==
  LET Terminated(st1) ==
        IF command.type = TERMINATE_SIMULATOR_SESSION /\ result.success
        THEN emit([st1 EXCEPT !.activeSessionId = NullV],
                  "sessionTerminated", [sessionId |-> st1.activeSessionId])
        ELSE st1
  IN  Terminated(IF command.type = CREATE_SIMULATOR_SESSION /\ result.success
                      /\ ~Falsy(result.data)
                 THEN [st EXCEPT !.activeSessionId = result.data]
                 ELSE st)

SessionUpdate_ReportsCleared(command, result, st) ==
  LET Terminated(st1) ==
        IF command.type = TERMINATE_SIMULATOR_SESSION /\ result.success
        THEN emit([st1 EXCEPT !.activeSessionId = NullV],
                  "sessionTerminated", [sessionId |-> NullV])
        ELSE st1
  IN  Terminated(IF command.type = CREATE_SIMULATOR_SESSION /\ result.success
                      /\ ~Falsy(result.data)
                 THEN emit([st EXCEPT !.activeSessionId = result.data],
                           "sessionCreated", [sessionId |-> result.data])
                 ELSE st)

SessionUpdate_FirstWins(command, result, st) ==
  LET Terminated(st1) ==
        IF command.type = TERMINATE_SIMULATOR_SESSION /\ result.success
        THEN emit([st1 EXCEPT !.activeSessionId = NullV],
                  "sessionTerminated", [sessionId |-> st1.activeSessionId])
        ELSE st1
  IN  Terminated(IF command.type = CREATE_SIMULATOR_SESSION /\ result.success
                      /\ ~Falsy(result.data)
                 THEN emit([st EXCEPT !.activeSessionId = Or(@, result.data)],
                           "sessionCreated", [sessionId |-> result.data])
                 ELSE st)

SessionUpdate_WhateverResult(command, result, st) ==
  LET Terminated(st1) ==
        IF command.type = TERMINATE_SIMULATOR_SESSION
        THEN emit([st1 EXCEPT !.activeSessionId = NullV],
                  "sessionTerminated", [sessionId |-> st1.activeSessionId])
        ELSE st1
  IN  Terminated(IF command.type = CREATE_SIMULATOR_SESSION /\ result.success
                      /\ ~Falsy(result.data)
                 THEN emit([st EXCEPT !.activeSessionId = result.data],
                           "sessionCreated", [sessionId |-> result.data])
                 ELSE st)

SessionUpdate(command, result, st) ==
  LET Terminated(st1) ==
        IF command.type = TERMINATE_SIMULATOR_SESSION /\ result.success
        THEN emit([st1 EXCEPT !.activeSessionId = NullV],
                  "sessionTerminated", [sessionId |-> st1.activeSessionId])
        ELSE st1
  IN  Terminated(IF command.type = CREATE_SIMULATOR_SESSION /\ result.success
                      /\ ~Falsy(result.data)
                 THEN emit([st EXCEPT !.activeSessionId = result.data],
                           "sessionCreated", [sessionId |-> result.data])
                 ELSE st)

ExecuteAtomic_IgnoresVerdict(command, st, env) ==
  LET Dispatched(command1, o) ==
        IF o.thrown THEN o
        ELSE Return(o.res, SessionUpdate(command1, o.res, o.st))
      Executed(command1, stT) ==
        Dispatched(command1, OrchestratorToIDB_executeCommand(command1, Context(stT), stT, env))
      Transformed(stT) ==
        IF command.transformParameters.k = "throw"
        THEN Throw(command.transformParameters.msg, stT)
        ELSE Executed(IF command.transformParameters.k = "resolve"
                      THEN [command EXCEPT !.parameters = command.transformParameters.v]
                      ELSE command, stT)
      Validated(stV) ==
        IF command.validate.k = "throw" THEN Throw(command.validate.msg, stV)
        ELSE Transformed(IF command.transformParameters.k = "absent" THEN stV
                         ELSE [stV EXCEPT !.hookCalls =
                                 Append(@, [hook |-> "transformParameters",
                                            command |-> command.id,
                                            sessionId |-> Context(stV), error |-> "",
                                            outcome |-> command.transformParameters])])
  IN  Validated(IF command.validate.k = "absent" THEN st
                ELSE [st EXCEPT !.hookCalls =
                        Append(@, [hook |-> "validate", command |-> command.id,
                                   sessionId |-> Context(st), error |-> "",
                                   outcome |-> command.validate])])

ExecuteAtomic_DispatchesOriginal(command, st, env) ==
  LET Dispatched(command1, o) ==
        IF o.thrown THEN o
        ELSE Return(o.res, SessionUpdate(command1, o.res, o.st))
      Executed(command1, stT) ==
        Dispatched(command1, OrchestratorToIDB_executeCommand(command1, Context(stT), stT, env))
      Transformed(stT) ==
        IF command.transformParameters.k = "throw"
        THEN Throw(command.transformParameters.msg, stT)
        ELSE Executed(command, stT)
      Validated(stV) ==
        IF command.validate.k = "throw" THEN Throw(command.validate.msg, stV)
        ELSE IF command.validate.k = "resolve" /\ ~command.validate.v
        THEN ReturnEarly(Failure("Parameter validation failed", env.now), stV)
        ELSE Transformed(IF command.transformParameters.k = "absent" THEN stV
                         ELSE [stV EXCEPT !.hookCalls =
                                 Append(@, [hook |-> "transformParameters",
                                            command |-> command.id,
                                            sessionId |-> Context(stV), error |-> "",
                                            outcome |-> command.transformParameters])])
  IN  Validated(IF command.validate.k = "absent" THEN st
                ELSE [st EXCEPT !.hookCalls =
                        Append(@, [hook |-> "validate", command |-> command.id,
                                   sessionId |-> Context(st), error |-> "",
                                   outcome |-> command.validate])])

\* the atomic branch of executeCommand (lines 169-204): validate, transform,
\* dispatch, session bookkeeping
ExecuteAtomic(command, st, env) ==
  LET Dispatched(command1, o) ==
        IF o.thrown THEN o
        ELSE Return(o.res, SessionUpdate(command1, o.res, o.st))
      Executed(command1, stT) ==
        Dispatched(command1, OrchestratorToIDB_executeCommand(command1, Context(stT), stT, env))
      Transformed(stT) ==
        IF command.transformParameters.k = "throw"
        THEN Throw(command.transformParameters.msg, stT)
        ELSE Executed(IF command.transformParameters.k = "resolve"
                      THEN [command EXCEPT !.parameters = command.transformParameters.v]
                      ELSE command, stT)
      Validated(stV) ==
        IF command.validate.k = "throw" THEN Throw(command.validate.msg, stV)
        ELSE IF command.validate.k = "resolve" /\ ~command.validate.v
        THEN ReturnEarly(Failure("Parameter validation failed", env.now), stV)
        ELSE Transformed(IF command.transformParameters.k = "absent" THEN stV
                         ELSE [stV EXCEPT !.hookCalls =
                                 Append(@, [hook |-> "transformParameters",
                                            command |-> command.id,
                                            sessionId |-> Context(stV), error |-> "",
                                            outcome |-> command.transformParameters])])
  IN  Validated(IF command.validate.k = "absent" THEN st
                ELSE [st EXCEPT !.hookCalls =
                        Append(@, [hook |-> "validate", command |-> command.id,
                                   sessionId |-> Context(st), error |-> "",
                                   outcome |-> command.validate])])

SaveAndEmit_NewestFirst(command, o, env) ==
  Return(o.res,
         emit([o.st EXCEPT !.commandHistory =
                 <<[command |-> command.id, result |-> o.res, timestamp |-> env.now]>> \o @],
              "commandExecuted", [command |-> command.id, result |-> o.res]))

SaveAndEmit_EventOnly(command, o, env) ==
  Return(o.res, emit(o.st, "commandExecuted", [command |-> command.id, result |-> o.res]))

SaveAndEmit_EmitsFirst(command, o, env) ==
  Return(o.res,
         [emit(o.st, "commandExecuted", [command |-> command.id, result |-> o.res])
            EXCEPT !.commandHistory =
                     Append(@, [command |-> command.id, result |-> o.res,
                                timestamp |-> env.now])])

\* the tail of executeCommand's try block (lines 207-220): history, event
SaveAndEmit(command, o, env) ==
  Return(o.res,
         emit([o.st EXCEPT !.commandHistory =
                 Append(@, [command |-> command.id, result |-> o.res, timestamp |-> env.now])],
              "commandExecuted", [command |-> command.id, result |-> o.res]))

ExecuteCatch_Rethrows(o, env) == o

\* the catch block of executeCommand (lines 221-228)
ExecuteCatch(o, env) ==
  IF o.thrown THEN Return(Failure(ErrMessage(o.msg), env.now), o.st) ELSE o

RECURSIVE executeCommand(_, _, _)
RECURSIVE SequenceLoop(_, _, _, _, _)

StopsAt_IgnoresFlag(sequenceCommand, result) == ~result.success

\* the test that ends the loop early (line 254)
StopsAt(sequenceCommand, result) ==
  ~result.success /\ ~Falsy(sequenceCommand.parameters.stopOnError)

RECURSIVE SequenceLoop_LastFirst(_, _, _, _, _)
SequenceLoop_LastFirst(sequenceCommand, i, results, st, env) ==
  LET commands == sequenceCommand.parameters.commands
  IN
  IF i > Len(commands)
  THEN Return(Success(Obj([results |-> results, completedCommands |-> Len(commands),
                           totalCommands |-> Len(commands)]), env.now), st)
  ELSE
    LET Pushed(o, results1) ==
          IF StopsAt(sequenceCommand, o.res)
          THEN Return(FailureWith(Obj([results |-> results1,
                                       completedCommands |-> IndexOf(commands, commands[Len(commands) + 1 - i]),
                                       totalCommands |-> Len(commands)]),
                                  "Error in command " \o commands[Len(commands) + 1 - i].id \o ": "
                                    \o ErrorText(o.res.error), env.now), o.st)
          ELSE SequenceLoop_LastFirst(sequenceCommand, i + 1, results1, o.st, env)
        Awaited(o) ==
          IF o.thrown THEN Throw(o.msg, [o.st EXCEPT !.partial = results])
          ELSE Pushed(o, Append(results, o.res))
    IN  Awaited(executeCommand(commands[Len(commands) + 1 - i], st, env))

RECURSIVE SequenceLoop_SessionSnapshot(_, _, _, _, _)
SequenceLoop_SessionSnapshot(sequenceCommand, i, results, st, env) ==
  LET commands == sequenceCommand.parameters.commands
  IN
  IF i > Len(commands)
  THEN Return(Success(Obj([results |-> results, completedCommands |-> Len(commands),
                           totalCommands |-> Len(commands)]), env.now), st)
  ELSE
    LET Pushed(o, results1) ==
          IF StopsAt(sequenceCommand, o.res)
          THEN Return(FailureWith(Obj([results |-> results1,
                                       completedCommands |-> IndexOf(commands, commands[i]),
                                       totalCommands |-> Len(commands)]),
                                  "Error in command " \o commands[i].id \o ": "
                                    \o ErrorText(o.res.error), env.now), o.st)
          ELSE SequenceLoop_SessionSnapshot(sequenceCommand, i + 1, results1,
                                            [o.st EXCEPT !.activeSessionId = st.activeSessionId],
                                            env)
        Awaited(o) ==
          IF o.thrown THEN Throw(o.msg, [o.st EXCEPT !.partial = results])
          ELSE Pushed(o, Append(results, o.res))
    IN  Awaited(executeCommand(commands[i], st, env))

\* the for loop of executeSequenceCommand from child i on (lines 246-277)
SequenceLoop(sequenceCommand, i, results, st, env) ==
  LET commands == sequenceCommand.parameters.commands
  IN
  IF i > Len(commands)
  THEN Return(Success(Obj([results |-> results, completedCommands |-> Len(commands),
                           totalCommands |-> Len(commands)]), env.now), st)
  ELSE
    LET Pushed(o, results1) ==
          IF StopsAt(sequenceCommand, o.res)
          THEN Return(FailureWith(Obj([results |-> results1,
                                       completedCommands |-> IndexOf(commands, commands[i]),
                                       totalCommands |-> Len(commands)]),
                                  "Error in command " \o commands[i].id \o ": "
                                    \o ErrorText(o.res.error), env.now), o.st)
          ELSE SequenceLoop(sequenceCommand, i + 1, results1, o.st, env)
        Awaited(o) ==
          IF o.thrown THEN Throw(o.msg, [o.st EXCEPT !.partial = results])
          ELSE Pushed(o, Append(results, o.res))
    IN  Awaited(executeCommand(commands[i], st, env))

\* MCPOrchestrator.executeSequenceCommand, with its catch block (lines 278-290)
executeSequenceCommand(sequenceCommand, st, env) ==
  LET Caught(o) ==
        IF o.thrown
        THEN Return(FailureWith(Obj([results |-> o.st.partial,
                                     completedCommands |-> Len(o.st.partial),
                                     totalCommands |-> Len(sequenceCommand.parameters.commands)]),
                                ErrMessage(o.msg), env.now), o.st)
        ELSE o
  IN  Caught(SequenceLoop(sequenceCommand, 1, <<>>, st, env))

executeConditionalCommand_FallsBackToTrue(conditionalCommand, st, env) ==
  LET p == conditionalCommand.parameters
      Evaluated(st1) ==
        IF p.condition.k = "throw"
        THEN Return(Failure(ErrMessage(p.condition.msg), env.now), st1)
        ELSE IF p.condition.v \/ p.ifFalse = <<>> THEN executeCommand(p.ifTrue, st1, env)
        ELSE executeCommand(p.ifFalse[1], st1, env)
  IN  Evaluated([st EXCEPT !.hookCalls =
                   Append(@, [hook |-> "condition", command |-> conditionalCommand.id,
                              sessionId |-> Context(st), previousResults |-> <<>>,
                              error |-> "", outcome |-> p.condition])])

executeConditionalCommand_BothBranches(conditionalCommand, st, env) ==
  LET p == conditionalCommand.parameters
      Other(o) ==
        IF p.ifFalse = <<>> THEN o
        ELSE [executeCommand(p.ifFalse[1], o.st, env) EXCEPT !.res = o.res]
      Evaluated(st1) ==
        IF p.condition.k = "throw"
        THEN Return(Failure(ErrMessage(p.condition.msg), env.now), st1)
        ELSE IF p.condition.v THEN Other(executeCommand(p.ifTrue, st1, env))
        ELSE IF p.ifFalse # <<>> THEN executeCommand(p.ifFalse[1], st1, env)
        ELSE Return(Success(Obj([conditionResult |-> p.condition.v, executed |-> FALSE]),
                            env.now), st1)
  IN  Evaluated([st EXCEPT !.hookCalls =
                   Append(@, [hook |-> "condition", command |-> conditionalCommand.id,
                              sessionId |-> Context(st), previousResults |-> <<>>,
                              error |-> "", outcome |-> p.condition])])

\* MCPOrchestrator.executeConditionalCommand.  The branch is returned without
\* await, so what it throws is not caught by this function's catch block.  The
\* context handed to the condition is {sessionId, previousResults: {},
\* variables: {}}.
executeConditionalCommand(conditionalCommand, st, env) ==
  LET p == conditionalCommand.parameters
      Evaluated(st1) ==
        IF p.condition.k = "throw"
        THEN Return(Failure(ErrMessage(p.condition.msg), env.now), st1)
        ELSE IF p.condition.v THEN executeCommand(p.ifTrue, st1, env)
        ELSE IF p.ifFalse # <<>> THEN executeCommand(p.ifFalse[1], st1, env)
        ELSE Return(Success(Obj([conditionResult |-> p.condition.v, executed |-> FALSE]),
                            env.now), st1)
  IN  Evaluated([st EXCEPT !.hookCalls =
                   Append(@, [hook |-> "condition", command |-> conditionalCommand.id,
                              sessionId |-> Context(st), previousResults |-> <<>>,
                              error |-> "", outcome |-> p.condition])])

\* the try block of executeCommand up to the history step
ExecuteTry(command, st, env) ==
  LET Saved(o) == IF o.thrown \/ o.early THEN o ELSE SaveAndEmit(command, o, env)
  IN  Saved(IF command.type = SEQUENCE THEN executeSequenceCommand(command, st, env)
            ELSE IF command.type = CONDITIONAL THEN executeConditionalCommand(command, st, env)
            ELSE ExecuteAtomic(command, st, env))

\* MCPOrchestrator.executeCommand(command)
executeCommand(command, st, env) ==
  LET Settled(o) ==
        [o EXCEPT !.early = FALSE,
                  !.st.trace = Append(@, [e |-> "exit", command |-> command.id,
                                          hooks |-> Len(o.st.hookCalls),
                                          calls |-> Len(o.st.backendCalls)])]
  IN  Settled(ExecuteCatch(ExecuteTry(command,
                                      [st EXCEPT !.entered = Append(@, command.id),
                                                 !.trace = Append(@, [e |-> "enter",
                                                                      command |-> command.id,
                                                                      hooks |-> Len(st.hookCalls),
                                                                      calls |-> Len(st.backendCalls)])],
                                      env), env))

----------------------------------------------------------------------------
(* Strings: a string is a sequence of characters, a character a string of
   length one *)

CharAt(s, i) == SubSeq(s, i, i)

UpperCaseLetters == "ABCDEFGHIJKLMNOPQRSTUVWXYZÁÉÍÓÚÑ"
LowerCaseLetters == "abcdefghijklmnopqrstuvwxyzáéíóúñ"
DecimalDigits == "0123456789"

UpperCaseChars ==
  {"A", "B", "C", "D", "E", "F", "G", "H", "I", "J", "K", "L", "M", "N", "O", "P", "Q", "R", "S",
   "T", "U", "V", "W", "X", "Y", "Z", "Á", "É", "Í", "Ó", "Ú", "Ñ"}
AsciiLetterChars ==
  {"A", "B", "C", "D", "E", "F", "G", "H", "I", "J", "K", "L", "M", "N", "O", "P", "Q", "R", "S",
   "T", "U", "V", "W", "X", "Y", "Z", "a", "b", "c", "d", "e", "f", "g", "h", "i", "j", "k", "l",
   "m", "n", "o", "p", "q", "r", "s", "t", "u", "v", "w", "x", "y", "z"}
DigitChars == {"0", "1", "2", "3", "4", "5", "6", "7", "8", "9"}

\* what \s matches and trim() strips
WhiteSpace == {" ", "\t", "\n"}

\* the first position from i on where s has the character c, 0 when there is none
RECURSIVE IndexOfChar(_, _, _)
IndexOfChar(s, c, i) ==
  IF i > Len(s) THEN 0
  ELSE IF CharAt(s, i) = c THEN i
  ELSE IndexOfChar(s, c, i + 1)

ToLowerChar(c) ==
  IF c \in UpperCaseChars THEN CharAt(LowerCaseLetters, IndexOfChar(UpperCaseLetters, c, 1)) ELSE c

ToUpperChar(c) ==
  LET i == IndexOfChar(LowerCaseLetters, c, 1)
  IN  IF i = 0 THEN c ELSE CharAt(UpperCaseLetters, i)

\* String.prototype.toLowerCase
RECURSIVE ToLowerCase(_)
ToLowerCase(s) ==
  IF s = "" THEN "" ELSE ToLowerChar(CharAt(s, 1)) \o ToLowerCase(SubSeq(s, 2, Len(s)))

\* String.prototype.toUpperCase
RECURSIVE ToUpperCase(_)
ToUpperCase(s) ==
  IF s = "" THEN "" ELSE ToUpperChar(CharAt(s, 1)) \o ToUpperCase(SubSeq(s, 2, Len(s)))

RECURSIVE TrimStart(_)
TrimStart(s) ==
  IF s # "" /\ CharAt(s, 1) \in WhiteSpace THEN TrimStart(SubSeq(s, 2, Len(s))) ELSE s

RECURSIVE TrimEnd(_)
TrimEnd(s) ==
  IF s # "" /\ CharAt(s, Len(s)) \in WhiteSpace THEN TrimEnd(SubSeq(s, 1, Len(s) - 1)) ELSE s

\* String.prototype.trim
Trim(s) == TrimEnd(TrimStart(s))

\* String.prototype.includes
Includes(s, sub) ==
  \E i \in 1..(Len(s) - Len(sub) + 1) : SubSeq(s, i, i + Len(sub) - 1) = sub

\* character classes of the patterns: \s, \d, [^,], [^\s,], [^\s], ., [a-zA-Z0-9-], [\d\s]
InClass(c, cls) ==
  CASE cls = "space" -> c \in WhiteSpace
    [] cls = "digit" -> c \in DigitChars
    [] cls = "notComma" -> c # ","
    [] cls = "notSpaceComma" -> c \notin WhiteSpace /\ c # ","
    [] cls = "notSpace" -> c \notin WhiteSpace
    [] cls = "any" -> c # "\n"
    [] cls = "alnumDash" -> c \in AsciiLetterChars \cup DigitChars \cup {"-"}
    [] cls = "digitSpace" -> c \in DigitChars \cup WhiteSpace

\* the length of the run of characters of class cls from position pos on
RECURSIVE RunOf(_, _, _)
RunOf(cls, s, pos) ==
  IF pos <= Len(s) /\ InClass(CharAt(s, pos), cls) THEN 1 + RunOf(cls, s, pos + 1) ELSE 0

\* s.split(/\s+/), from position pos on
RECURSIVE SplitFrom(_, _)
SplitFrom(s, pos) ==
  LET Word(n) ==
        IF pos + n > Len(s) THEN <<SubSeq(s, pos, pos + n - 1)>>
        ELSE <<SubSeq(s, pos, pos + n - 1)>>
               \o SplitFrom(s, pos + n + RunOf("space", s, pos + n))
  IN  Word(RunOf("notSpace", s, pos))

Split(s) == SplitFrom(s, 1)

\* Array.prototype.join
RECURSIVE Join(_, _)
Join(strings, separator) ==
  IF Len(strings) = 0 THEN ""
  ELSE IF Len(strings) = 1 THEN strings[1]
  ELSE strings[1] \o separator \o Join(Tail(strings), separator)

----------------------------------------------------------------------------
(* Numbers read from strings *)

NaN == [t |-> "number", nan |-> TRUE]

\* a number that is no integer, denoted by its literal
NumLit(lit) == [t |-> "number", lit |-> lit]

\* an array
Arr(a) == [t |-> "object", a |-> a]

DigitValue(c) == IndexOfChar(DecimalDigits, c, 1) - 1

\* the value of a string of decimal digits
RECURSIVE DigitsValue(_)
DigitsValue(s) ==
  IF s = "" THEN 0 ELSE 10 * DigitsValue(SubSeq(s, 1, Len(s) - 1)) + DigitValue(CharAt(s, Len(s)))

RECURSIVE StripTrailingZeros(_)
StripTrailingZeros(s) ==
  IF s # "" /\ CharAt(s, Len(s)) = "0" THEN StripTrailingZeros(SubSeq(s, 1, Len(s) - 1)) ELSE s

\* the number with this sign, these integer digits and these fraction digits
Decimal(negative, whole, fraction) ==
  LET Valued(f, n) ==
        IF f = "" THEN Num(IF negative THEN 0 - n ELSE n)
        ELSE NumLit((IF negative THEN "-" ELSE "") \o ToString(n) \o "." \o f)
  IN  Valued(StripTrailingZeros(fraction), DigitsValue(whole))

\* the sign prefix of s: [negative, rest]
Signed(s) ==
  IF s # "" /\ CharAt(s, 1) \in {"+", "-"}
  THEN [negative |-> CharAt(s, 1) = "-", rest |-> SubSeq(s, 2, Len(s))]
  ELSE [negative |-> FALSE, rest |-> s]

\* parseInt(s, 10): leading white space, a sign, then the longest run of digits
parseInt(s) ==
  LET Digits(p, n) == IF n = 0 THEN NaN ELSE Decimal(p.negative, SubSeq(p.rest, 1, n), "")
      Prefixed(p) == Digits(p, RunOf("digit", p.rest, 1))
  IN  Prefixed(Signed(TrimStart(s)))

\* parseFloat(s), for decimal literals without exponent: leading white space,
\* a sign, digits, then a point and digits
parseFloat(s) ==
  LET Fraction(p, n, m) ==
        IF n = 0 /\ m = 0 THEN NaN
        ELSE Decimal(p.negative, SubSeq(p.rest, 1, n), SubSeq(p.rest, n + 2, n + 1 + m))
      Digits(p, n) ==
        Fraction(p, n, IF n < Len(p.rest) /\ CharAt(p.rest, n + 1) = "."
                       THEN RunOf("digit", p.rest, n + 2) ELSE 0)
      Prefixed(p) == Digits(p, RunOf("digit", p.rest, 1))
  IN  Prefixed(Signed(TrimStart(s)))

\* Number(s) for a string: white space is trimmed, the empty string is 0, a
\* decimal literal (sign, digits, point, digits) is its value, anything else
\* NaN. Literals with an exponent, a radix prefix or Infinity are not among the
\* strings the model reads.
StringToNumber(s) ==
  LET Fraction(p, n, point, m) ==
        IF n + m = 0 \/ (IF point THEN n + 1 + m ELSE n) # Len(p.rest) THEN NaN
        ELSE Decimal(p.negative, SubSeq(p.rest, 1, n), SubSeq(p.rest, n + 2, n + 1 + m))
      Point(p, n, point) ==
        Fraction(p, n, point, IF point THEN RunOf("digit", p.rest, n + 2) ELSE 0)
      Digits(p, n) == Point(p, n, n < Len(p.rest) /\ CharAt(p.rest, n + 1) = ".")
      Prefixed(p) == Digits(p, RunOf("digit", p.rest, 1))
      Trimmed(t) == IF t = "" THEN Num(0) ELSE Prefixed(Signed(t))
  IN  Trimmed(Trim(s))

\* Number(v)
ToNumber(v) ==
  CASE v.t = "number" -> v
    [] v.t = "string" -> StringToNumber(v.s)
    [] v.t = "boolean" -> Num(IF v.b THEN 1 ELSE 0)
    [] v.t = "null" -> Num(0)
    [] OTHER -> NaN

----------------------------------------------------------------------------
(* Regular expressions: a pattern is a sequence of elements *)

Lit(s) == [e |-> "lit", s |-> s]                           \* literal text
Many(cls, min) == [e |-> "many", cls |-> cls, min |-> min]  \* cls+ (min 1) or cls* (min 0)
S1 == Many("space", 1)                                      \* \s+
S0 == Many("space", 0)                                      \* \s*
Opt(p) == [e |-> "opt", p |-> p]                            \* (p)?
Alt(ps) == [e |-> "alt", ps |-> ps]                         \* p1|p2|...
Group(name, p) == [e |-> "group", name |-> name, p |-> p]   \* (?<name>p)
GroupEnd(name, from) == [e |-> "end", name |-> name, from |-> from]

NoMatch == [ok |-> FALSE]
NoGroups == [name \in {} |-> ""]

\* the literal is at position pos of the text, letter case ignored (flag i)
LitAt(lit, text, pos) ==
  /\ pos + Len(lit) - 1 <= Len(text)
  /\ \A i \in 1..Len(lit) : ToLowerChar(CharAt(lit, i)) = ToLowerChar(CharAt(text, pos + i - 1))

RECURSIVE Match(_, _, _, _)
RECURSIVE Greedy(_, _, _, _, _, _)
RECURSIVE Alternatives(_, _, _, _, _, _)

\* a backtracking match of the pattern p at position pos: the first match in
\* the engine's order of preference (quantifiers greedy, alternatives left to
\* right), as [ok, end, groups], or NoMatch
Match(p, text, pos, groups) ==
  IF Len(p) = 0 THEN [ok |-> TRUE, end |-> pos, groups |-> groups]
  ELSE
    LET el == Head(p)
        rest == Tail(p)
    IN  CASE el.e = "lit" ->
               IF LitAt(el.s, text, pos) THEN Match(rest, text, pos + Len(el.s), groups)
               ELSE NoMatch
          [] el.e = "many" -> Greedy(el, rest, text, pos, groups, RunOf(el.cls, text, pos))
          [] el.e = "opt" ->
               LET Taken(m) == IF m.ok THEN m ELSE Match(rest, text, pos, groups)
               IN  Taken(Match(el.p \o rest, text, pos, groups))
          [] el.e = "alt" -> Alternatives(el.ps, 1, rest, text, pos, groups)
          [] el.e = "group" -> Match(el.p \o <<GroupEnd(el.name, pos)>> \o rest, text, pos, groups)
          [] el.e = "end" ->
               Match(rest, text, pos, (el.name :> SubSeq(text, el.from, pos - 1)) @@ groups)

\* n characters of the class, then the rest; fewer when that fails
Greedy(el, rest, text, pos, groups, n) ==
  IF n < el.min THEN NoMatch
  ELSE LET Taken(m) == IF m.ok THEN m ELSE Greedy(el, rest, text, pos, groups, n - 1)
       IN  Taken(Match(rest, text, pos + n, groups))

Alternatives(ps, i, rest, text, pos, groups) ==
  IF i > Len(ps) THEN NoMatch
  ELSE LET Taken(m) == IF m.ok THEN m ELSE Alternatives(ps, i + 1, rest, text, pos, groups)
       IN  Taken(Match(ps[i] \o rest, text, pos, groups))

RECURSIVE MatchFrom(_, _, _)
MatchFrom(pattern, text, start) ==
  IF start > Len(text) + 1 THEN NoMatch
  ELSE LET Found(m) == IF m.ok THEN m ELSE MatchFrom(pattern, text, start + 1)
       IN  Found(Match(pattern, text, start, NoGroups))

\* text.match(pattern): the leftmost match (the patterns are not anchored)
StringMatch(text, pattern) == MatchFrom(pattern, text, 1)

----------------------------------------------------------------------------
(* The command catalogue *)

\* the definitions of SimulatorCommands, in declaration order (/i on every pattern)
SimulatorCommands ==
  <<
    [command |-> "create session",
     patterns |-> <<
       <<Lit("crear"), S1, Opt(<<Lit("una"), S1>>), Lit("sesión"), Opt(<<S1, Lit("de"), S1,
         Lit("simulador")>>), Opt(<<S1, Lit("con"), S1, Group("deviceName", <<Many("notComma",
         1)>>)>>)>>,
       <<Lit("iniciar"), S1, Opt(<<Lit("un"), S1>>), Lit("simulador"), Opt(<<S1, Group("deviceName",
         <<Many("notComma", 1)>>)>>)>>,
       <<Lit("create"), S1, Opt(<<Lit("a"), S1>>), Lit("session"), Opt(<<S1, Lit("with"), S1,
         Group("deviceName", <<Many("notComma", 1)>>)>>)>>,
       <<Lit("start"), S1, Opt(<<Lit("a"), S1>>), Lit("simulator"), Opt(<<S1, Group("deviceName",
         <<Many("notComma", 1)>>)>>)>>,
       <<Lit("launch"), S1, Opt(<<Lit("a"), S1>>), Lit("simulator"), Opt(<<S1, Group("deviceName",
         <<Many("notComma", 1)>>)>>)>>
     >>,
     requiredParameters |-> <<>>,
     optionalParameters |-> <<"deviceName", "platformVersion", "autoboot">>,
     examples |-> <<"crear sesión", "crear una sesión de simulador", "iniciar simulador iPhone 12",
       "create session with iPhone 12", "start simulator iPhone 13">>,
     parameterExtractors |-> <<[name |-> "deviceName", group |-> "deviceName", kind |-> "trim"]>>],
    [command |-> "end session",
     patterns |-> <<
       <<Lit("terminar"), S1, Opt(<<Lit("la"), S1>>), Lit("sesión")>>,
       <<Lit("cerrar"), S1, Opt(<<Lit("el"), S1>>), Lit("simulador")>>,
       <<Lit("end"), S1, Opt(<<Lit("the"), S1>>), Lit("session")>>,
       <<Lit("close"), S1, Opt(<<Lit("the"), S1>>), Lit("simulator")>>,
       <<Lit("terminate"), S1, Opt(<<Lit("the"), S1>>), Lit("session")>>
     >>,
     requiredParameters |-> <<>>,
     optionalParameters |-> <<"sessionId">>,
     examples |-> <<"terminar sesión", "cerrar simulador", "end session", "close simulator",
       "terminate session">>,
     parameterExtractors |-> <<>>],
    [command |-> "list simulators",
     patterns |-> <<
       <<Lit("listar"), S1, Opt(<<Lit("los"), S1>>), Lit("simuladores")>>,
       <<Lit("mostrar"), S1, Opt(<<Lit("los"), S1>>), Lit("simuladores")>>,
       <<Lit("qué"), S1, Lit("simuladores"), S1, Alt(<<<<Lit("hay")>>, <<Lit("están"), S1,
         Lit("disponibles")>>>>)>>,
       <<Lit("list"), S1, Opt(<<Lit("all"), S1>>), Lit("simulators")>>,
       <<Lit("show"), S1, Opt(<<Lit("all"), S1>>), Lit("simulators")>>,
       <<Lit("display"), S1, Opt(<<Lit("all"), S1>>), Lit("simulators")>>
     >>,
     requiredParameters |-> <<>>,
     optionalParameters |-> <<>>,
     examples |-> <<"listar simuladores", "mostrar simuladores", "qué simuladores hay",
       "list simulators", "show all simulators", "display simulators">>,
     parameterExtractors |-> <<>>],
    [command |-> "list booted simulators",
     patterns |-> <<
       <<Lit("listar"), S1, Opt(<<Lit("los"), S1>>), Lit("simuladores"), S1, Lit("arrancados")>>,
       <<Lit("mostrar"), S1, Opt(<<Lit("los"), S1>>), Lit("simuladores"), S1, Lit("arrancados")>>,
       <<Lit("qué"), S1, Lit("simuladores"), S1, Lit("están"), S1, Lit("arrancados")>>,
       <<Lit("list"), S1, Opt(<<Lit("all"), S1>>), Lit("booted"), S1, Lit("simulators")>>,
       <<Lit("show"), S1, Lit("running"), S1, Lit("simulators")>>,
       <<Lit("display"), S1, Lit("active"), S1, Lit("simulators")>>
     >>,
     requiredParameters |-> <<>>,
     optionalParameters |-> <<>>,
     examples |-> <<"listar simuladores arrancados", "mostrar simuladores arrancados",
       "qué simuladores están arrancados", "list booted simulators", "show running simulators",
       "display active simulators">>,
     parameterExtractors |-> <<>>],
    [command |-> "boot simulator",
     patterns |-> <<
       <<Lit("arrancar"), S1, Opt(<<Lit("el"), S1>>), Lit("simulador"), S1, Group("udid",
         <<Many("alnumDash", 1)>>)>>,
       <<Lit("bootear"), S1, Opt(<<Lit("el"), S1>>), Lit("simulador"), S1, Group("udid",
         <<Many("alnumDash", 1)>>)>>,
       <<Lit("boot"), S1, Opt(<<Lit("the"), S1>>), Lit("simulator"), S1, Group("udid",
         <<Many("alnumDash", 1)>>)>>,
       <<Lit("start"), S1, Opt(<<Lit("the"), S1>>), Lit("simulator"), S1, Group("udid",
         <<Many("alnumDash", 1)>>)>>
     >>,
     requiredParameters |-> <<"udid">>,
     optionalParameters |-> <<>>,
     examples |-> <<"arrancar simulador 5A321B8F-4D85-4267-9F79-2F5C91D142C2",
       "bootear simulador 5A321B8F-4D85-4267-9F79-2F5C91D142C2",
       "boot simulator 5A321B8F-4D85-4267-9F79-2F5C91D142C2",
       "start simulator 5A321B8F-4D85-4267-9F79-2F5C91D142C2">>,
     parameterExtractors |-> <<[name |-> "udid", group |-> "udid", kind |-> "trim"]>>],
    [command |-> "shutdown simulator",
     patterns |-> <<
       <<Lit("apagar"), S1, Opt(<<Lit("el"), S1>>), Lit("simulador"), S1, Group("udid",
         <<Many("alnumDash", 1)>>)>>,
       <<Lit("shutdown"), S1, Opt(<<Lit("el"), S1>>), Lit("simulador"), S1, Group("udid",
         <<Many("alnumDash", 1)>>)>>,
       <<Lit("shutdown"), S1, Opt(<<Lit("the"), S1>>), Lit("simulator"), S1, Group("udid",
         <<Many("alnumDash", 1)>>)>>,
       <<Lit("turn"), S1, Lit("off"), S1, Opt(<<Lit("the"), S1>>), Lit("simulator"), S1,
         Group("udid", <<Many("alnumDash", 1)>>)>>
     >>,
     requiredParameters |-> <<"udid">>,
     optionalParameters |-> <<>>,
     examples |-> <<"apagar simulador 5A321B8F-4D85-4267-9F79-2F5C91D142C2",
       "shutdown simulador 5A321B8F-4D85-4267-9F79-2F5C91D142C2",
       "shutdown simulator 5A321B8F-4D85-4267-9F79-2F5C91D142C2",
       "turn off simulator 5A321B8F-4D85-4267-9F79-2F5C91D142C2">>,
     parameterExtractors |-> <<[name |-> "udid", group |-> "udid", kind |-> "trim"]>>],
    [command |-> "focus simulator",
     patterns |-> <<
       <<Lit("enfocar"), S1, Opt(<<Lit("el"), S1>>), Lit("simulador")>>,
       <<Lit("focus"), S1, Opt(<<Lit("el"), S1>>), Lit("simulador")>>,
       <<Lit("traer"), S1, Opt(<<Lit("el"), S1>>), Lit("simulador"), S1, Lit("al"), S1,
         Lit("frente")>>,
       <<Lit("focus"), S1, Opt(<<Lit("the"), S1>>), Lit("simulator")>>,
       <<Lit("bring"), S1, Opt(<<Lit("the"), S1>>), Lit("simulator"), S1, Lit("to"), S1,
         Lit("front")>>
     >>,
     requiredParameters |-> <<>>,
     optionalParameters |-> <<"sessionId">>,
     examples |-> <<"enfocar simulador", "focus simulador", "traer simulador al frente",
       "focus simulator", "bring simulator to front">>,
     parameterExtractors |-> <<>>]
  >>

\* the definitions of AppCommands, in declaration order (/i on every pattern)
AppCommands ==
  <<
    [command |-> "install app",
     patterns |-> <<
       <<Lit("instalar"), S1, Opt(<<Lit("la"), S1>>), Lit("app"), Opt(<<S1, Lit("en"), S1,
         Lit("la"), S1, Lit("ruta")>>), S1, Group("appPath", <<Many("notSpaceComma", 1)>>)>>,
       <<Lit("instalar"), S1, Opt(<<Lit("la"), S1>>), Lit("aplicación"), Opt(<<S1, Lit("en"), S1,
         Lit("la"), S1, Lit("ruta")>>), S1, Group("appPath", <<Many("notSpaceComma", 1)>>)>>,
       <<Lit("install"), S1, Opt(<<Lit("the"), S1>>), Lit("app"), Opt(<<S1, Lit("at")>>), S1,
         Group("appPath", <<Many("notSpaceComma", 1)>>)>>,
       <<Lit("install"), S1, Opt(<<Lit("the"), S1>>), Lit("application"), Opt(<<S1, Lit("at")>>),
         S1, Group("appPath", <<Many("notSpaceComma", 1)>>)>>
     >>,
     requiredParameters |-> <<"appPath">>,
     optionalParameters |-> <<"sessionId">>,
     examples |-> <<"instalar app /ruta/a/la/app.ipa", "instalar la aplicación /ruta/a/la/app.app",
       "install app /path/to/app.ipa", "install application /path/to/app.app">>,
     parameterExtractors |-> <<[name |-> "appPath", group |-> "appPath", kind |-> "trim"]>>],
    [command |-> "launch app",
     patterns |-> <<
       <<Lit("lanzar"), S1, Opt(<<Lit("la"), S1>>), Lit("app"), S1, Group("bundleId",
         <<Many("notSpaceComma", 1)>>)>>,
       <<Lit("abrir"), S1, Opt(<<Lit("la"), S1>>), Lit("app"), S1, Group("bundleId",
         <<Many("notSpaceComma", 1)>>)>>,
       <<Lit("iniciar"), S1, Opt(<<Lit("la"), S1>>), Lit("app"), S1, Group("bundleId",
         <<Many("notSpaceComma", 1)>>)>>,
       <<Lit("launch"), S1, Opt(<<Lit("the"), S1>>), Lit("app"), S1, Group("bundleId",
         <<Many("notSpaceComma", 1)>>)>>,
       <<Lit("open"), S1, Opt(<<Lit("the"), S1>>), Lit("app"), S1, Group("bundleId",
         <<Many("notSpaceComma", 1)>>)>>,
       <<Lit("start"), S1, Opt(<<Lit("the"), S1>>), Lit("app"), S1, Group("bundleId",
         <<Many("notSpaceComma", 1)>>)>>
     >>,
     requiredParameters |-> <<"bundleId">>,
     optionalParameters |-> <<"sessionId">>,
     examples |-> <<"lanzar app com.example.app", "abrir app com.apple.mobilesafari",
       "launch app com.example.app", "open app com.apple.mobilesafari">>,
     parameterExtractors |-> <<[name |-> "bundleId", group |-> "bundleId", kind |-> "trim"]>>],
    [command |-> "terminate app",
     patterns |-> <<
       <<Lit("terminar"), S1, Opt(<<Lit("la"), S1>>), Lit("app"), S1, Group("bundleId",
         <<Many("notSpaceComma", 1)>>)>>,
       <<Lit("cerrar"), S1, Opt(<<Lit("la"), S1>>), Lit("app"), S1, Group("bundleId",
         <<Many("notSpaceComma", 1)>>)>>,
       <<Lit("matar"), S1, Opt(<<Lit("la"), S1>>), Lit("app"), S1, Group("bundleId",
         <<Many("notSpaceComma", 1)>>)>>,
       <<Lit("terminate"), S1, Opt(<<Lit("the"), S1>>), Lit("app"), S1, Group("bundleId",
         <<Many("notSpaceComma", 1)>>)>>,
       <<Lit("close"), S1, Opt(<<Lit("the"), S1>>), Lit("app"), S1, Group("bundleId",
         <<Many("notSpaceComma", 1)>>)>>,
       <<Lit("kill"), S1, Opt(<<Lit("the"), S1>>), Lit("app"), S1, Group("bundleId",
         <<Many("notSpaceComma", 1)>>)>>
     >>,
     requiredParameters |-> <<"bundleId">>,
     optionalParameters |-> <<"sessionId">>,
     examples |-> <<"terminar app com.example.app", "cerrar app com.apple.mobilesafari",
       "matar app com.example.app", "terminate app com.example.app",
       "close app com.apple.mobilesafari", "kill app com.example.app">>,
     parameterExtractors |-> <<[name |-> "bundleId", group |-> "bundleId", kind |-> "trim"]>>],
    [command |-> "uninstall app",
     patterns |-> <<
       <<Lit("desinstalar"), S1, Opt(<<Lit("la"), S1>>), Lit("app"), S1, Group("bundleId",
         <<Many("notSpaceComma", 1)>>)>>,
       <<Lit("eliminar"), S1, Opt(<<Lit("la"), S1>>), Lit("app"), S1, Group("bundleId",
         <<Many("notSpaceComma", 1)>>)>>,
       <<Lit("borrar"), S1, Opt(<<Lit("la"), S1>>), Lit("app"), S1, Group("bundleId",
         <<Many("notSpaceComma", 1)>>)>>,
       <<Lit("uninstall"), S1, Opt(<<Lit("the"), S1>>), Lit("app"), S1, Group("bundleId",
         <<Many("notSpaceComma", 1)>>)>>,
       <<Lit("remove"), S1, Opt(<<Lit("the"), S1>>), Lit("app"), S1, Group("bundleId",
         <<Many("notSpaceComma", 1)>>)>>,
       <<Lit("delete"), S1, Opt(<<Lit("the"), S1>>), Lit("app"), S1, Group("bundleId",
         <<Many("notSpaceComma", 1)>>)>>
     >>,
     requiredParameters |-> <<"bundleId">>,
     optionalParameters |-> <<"sessionId">>,
     examples |-> <<"desinstalar app com.example.app", "eliminar app com.apple.mobilesafari",
       "borrar app com.example.app", "uninstall app com.example.app",
       "remove app com.apple.mobilesafari", "delete app com.example.app">>,
     parameterExtractors |-> <<[name |-> "bundleId", group |-> "bundleId", kind |-> "trim"]>>],
    [command |-> "list apps",
     patterns |-> <<
       <<Lit("listar"), S1, Opt(<<Lit("las"), S1>>), Lit("apps")>>,
       <<Lit("mostrar"), S1, Opt(<<Lit("las"), S1>>), Lit("apps")>>,
       <<Lit("qué"), S1, Lit("apps"), S1, Alt(<<<<Lit("hay")>>, <<Lit("están"), S1,
         Lit("instaladas")>>>>)>>,
       <<Lit("list"), S1, Opt(<<Lit("the"), S1>>), Lit("apps")>>,
       <<Lit("show"), S1, Opt(<<Lit("the"), S1>>), Lit("apps")>>,
       <<Lit("what"), S1, Lit("apps"), S1, Alt(<<<<Lit("are"), S1, Lit("there")>>, <<Lit("are"), S1,
         Lit("installed")>>>>)>>
     >>,
     requiredParameters |-> <<>>,
     optionalParameters |-> <<"sessionId">>,
     examples |-> <<"listar apps", "mostrar apps", "qué apps hay", "list apps", "show apps",
       "what apps are installed">>,
     parameterExtractors |-> <<>>]
  >>

\* the definitions of UICommands, in declaration order (/i on every pattern)
UICommands ==
  <<
    [command |-> "tap",
     patterns |-> <<
       <<Lit("tap"), Opt(<<S1, Lit("at")>>), S1, Group("x", <<Many("digit", 1)>>), S0, Lit(","), S0,
         Group("y", <<Many("digit", 1)>>)>>,
       <<Lit("tocar"), Opt(<<S1, Lit("en")>>), S1, Group("x", <<Many("digit", 1)>>), S0, Lit(","),
         S0, Group("y", <<Many("digit", 1)>>)>>,
       <<Lit("pulsar"), Opt(<<S1, Lit("en")>>), S1, Group("x", <<Many("digit", 1)>>), S0, Lit(","),
         S0, Group("y", <<Many("digit", 1)>>)>>
     >>,
     requiredParameters |-> <<"x", "y">>,
     optionalParameters |-> <<"sessionId", "duration">>,
     examples |-> <<"tap en 100, 200", "tocar 150, 300", "pulsar en 200, 400", "tap at 100, 200",
       "tap 150, 300">>,
     parameterExtractors |-> <<[name |-> "x", group |-> "x", kind |-> "parseInt"], [name |-> "y",
       group |-> "y", kind |-> "parseInt"]>>],
    [command |-> "swipe",
     patterns |-> <<
       <<Lit("swipe"), S1, Lit("from"), S1, Group("startX", <<Many("digit", 1)>>), S0, Lit(","), S0,
         Group("startY", <<Many("digit", 1)>>), S1, Lit("to"), S1, Group("endX", <<Many("digit",
         1)>>), S0, Lit(","), S0, Group("endY", <<Many("digit", 1)>>), Opt(<<S1, Lit("with"), S1,
         Lit("duration"), S1, Group("duration", <<Many("digit", 1)>>)>>)>>,
       <<Lit("deslizar"), S1, Lit("desde"), S1, Group("startX", <<Many("digit", 1)>>), S0, Lit(","),
         S0, Group("startY", <<Many("digit", 1)>>), S1, Lit("hasta"), S1, Group("endX",
         <<Many("digit", 1)>>), S0, Lit(","), S0, Group("endY", <<Many("digit", 1)>>), Opt(<<S1,
         Lit("con"), S1, Lit("duración"), S1, Group("duration", <<Many("digit", 1)>>)>>)>>
     >>,
     requiredParameters |-> <<"startX", "startY", "endX", "endY">>,
     optionalParameters |-> <<"duration", "delta", "sessionId">>,
     examples |-> <<"swipe desde 100, 200 hasta 300, 400",
       "deslizar desde 150, 300 hasta 150, 100 con duración 500", "swipe from 100, 200 to 300, 400",
       "swipe from 150, 300 to 150, 100 with duration 500">>,
     parameterExtractors |-> <<[name |-> "startX", group |-> "startX", kind |-> "parseInt"],
       [name |-> "startY", group |-> "startY", kind |-> "parseInt"], [name |-> "endX",
       group |-> "endX", kind |-> "parseInt"], [name |-> "endY", group |-> "endY",
       kind |-> "parseInt"], [name |-> "duration", group |-> "duration",
       kind |-> "parseIntIfPresent"]>>],
    [command |-> "press device button",
     patterns |-> <<
       <<Lit("presionar"), S1, Opt(<<Lit("el"), S1>>), Lit("botón"), S1, Lit("del"), S1,
         Lit("dispositivo"), S1, Group("button", <<Alt(<<<<Lit("APPLE_PAY")>>, <<Lit("HOME")>>,
         <<Lit("LOCK")>>, <<Lit("SIDE_BUTTON")>>, <<Lit("SIRI")>>>>)>>)>>,
       <<Lit("pulsar"), S1, Opt(<<Lit("el"), S1>>), Lit("botón"), S1, Lit("del"), S1,
         Lit("dispositivo"), S1, Group("button", <<Alt(<<<<Lit("APPLE_PAY")>>, <<Lit("HOME")>>,
         <<Lit("LOCK")>>, <<Lit("SIDE_BUTTON")>>, <<Lit("SIRI")>>>>)>>)>>,
       <<Lit("presionar"), S1, Opt(<<Lit("el"), S1>>), Lit("botón"), S1, Lit("físico"), S1,
         Group("button", <<Alt(<<<<Lit("APPLE_PAY")>>, <<Lit("HOME")>>, <<Lit("LOCK")>>,
         <<Lit("SIDE_BUTTON")>>, <<Lit("SIRI")>>>>)>>)>>,
       <<Lit("press"), S1, Opt(<<Lit("the"), S1>>), Lit("device"), S1, Lit("button"), S1,
         Group("button", <<Alt(<<<<Lit("APPLE_PAY")>>, <<Lit("HOME")>>, <<Lit("LOCK")>>,
         <<Lit("SIDE_BUTTON")>>, <<Lit("SIRI")>>>>)>>)>>,
       <<Lit("push"), S1, Opt(<<Lit("the"), S1>>), Lit("device"), S1, Lit("button"), S1,
         Group("button", <<Alt(<<<<Lit("APPLE_PAY")>>, <<Lit("HOME")>>, <<Lit("LOCK")>>,
         <<Lit("SIDE_BUTTON")>>, <<Lit("SIRI")>>>>)>>)>>,
       <<Lit("tap"), S1, Opt(<<Lit("the"), S1>>), Lit("device"), S1, Lit("button"), S1,
         Group("button", <<Alt(<<<<Lit("APPLE_PAY")>>, <<Lit("HOME")>>, <<Lit("LOCK")>>,
         <<Lit("SIDE_BUTTON")>>, <<Lit("SIRI")>>>>)>>)>>
     >>,
     requiredParameters |-> <<"button">>,
     optionalParameters |-> <<"duration", "sessionId">>,
     examples |-> <<"presionar botón del dispositivo HOME", "pulsar botón del dispositivo SIRI",
       "presionar botón físico HOME", "press device button HOME", "push device button SIRI",
       "tap device button LOCK">>,
     parameterExtractors |-> <<[name |-> "button", group |-> "button",
       kind |-> "trimToUpperCase"]>>],
    [command |-> "input text",
     patterns |-> <<
       <<Lit("introducir"), S1, Lit("texto"), S1, Group("text", <<Many("any", 1)>>)>>,
       <<Lit("escribir"), S1, Lit("texto"), S1, Group("text", <<Many("any", 1)>>)>>,
       <<Lit("input"), S1, Lit("text"), S1, Group("text", <<Many("any", 1)>>)>>,
       <<Lit("type"), S1, Lit("text"), S1, Group("text", <<Many("any", 1)>>)>>,
       <<Lit("enter"), S1, Lit("text"), S1, Group("text", <<Many("any", 1)>>)>>
     >>,
     requiredParameters |-> <<"text">>,
     optionalParameters |-> <<"sessionId">>,
     examples |-> <<"introducir texto Hola mundo", "escribir texto Prueba de texto",
       "input text Hello world", "type text Test message", "enter text Hello">>,
     parameterExtractors |-> <<[name |-> "text", group |-> "text", kind |-> "trim"]>>],
    [command |-> "press key",
     patterns |-> <<
       <<Lit("presionar"), S1, Opt(<<Lit("la"), S1>>), Lit("tecla"), S1, Group("keyCode",
         <<Many("digit", 1)>>)>>,
       <<Lit("pulsar"), S1, Opt(<<Lit("la"), S1>>), Lit("tecla"), S1, Group("keyCode",
         <<Many("digit", 1)>>)>>,
       <<Lit("press"), S1, Lit("key"), S1, Group("keyCode", <<Many("digit", 1)>>)>>,
       <<Lit("hit"), S1, Lit("key"), S1, Group("keyCode", <<Many("digit", 1)>>)>>,
       <<Lit("type"), S1, Lit("key"), S1, Group("keyCode", <<Many("digit", 1)>>)>>
     >>,
     requiredParameters |-> <<"keyCode">>,
     optionalParameters |-> <<"duration", "sessionId">>,
     examples |-> <<"presionar tecla 4", "pulsar la tecla 65", "press key 4", "hit key 65",
       "type key 13">>,
     parameterExtractors |-> <<[name |-> "keyCode", group |-> "keyCode", kind |-> "parseInt"]>>],
    [command |-> "press key sequence",
     patterns |-> <<
       <<Lit("presionar"), S1, Lit("secuencia"), S1, Lit("de"), S1, Lit("teclas"), S1,
         Group("keyCodes", <<Many("digitSpace", 1)>>)>>,
       <<Lit("pulsar"), S1, Lit("secuencia"), S1, Lit("de"), S1, Lit("teclas"), S1,
         Group("keyCodes", <<Many("digitSpace", 1)>>)>>,
       <<Lit("press"), S1, Lit("key"), S1, Lit("sequence"), S1, Group("keyCodes",
         <<Many("digitSpace", 1)>>)>>,
       <<Lit("type"), S1, Lit("key"), S1, Lit("sequence"), S1, Group("keyCodes",
         <<Many("digitSpace", 1)>>)>>,
       <<Lit("enter"), S1, Lit("key"), S1, Lit("sequence"), S1, Group("keyCodes",
         <<Many("digitSpace", 1)>>)>>
     >>,
     requiredParameters |-> <<"keyCodes">>,
     optionalParameters |-> <<"sessionId">>,
     examples |-> <<"presionar secuencia de teclas 4 5 6", "pulsar secuencia de teclas 65 66 67",
       "press key sequence 4 5 6", "type key sequence 65 66 67", "enter key sequence 13 14 15">>,
     parameterExtractors |-> <<[name |-> "keyCodes", group |-> "keyCodes",
       kind |-> "splitParseInt"]>>]
  >>

\* the definitions of AccessibilityCommands, in declaration order (/i on every pattern)
AccessibilityCommands ==
  <<
    [command |-> "describe elements",
     patterns |-> <<
       <<Lit("describir"), S1, Opt(<<Lit("todos"), S1, Lit("los"), S1>>), Lit("elementos")>>,
       <<Lit("describe"), S1, Lit("all"), S1, Lit("elements")>>,
       <<Lit("mostrar"), S1, Lit("elementos"), S1, Lit("de"), S1, Lit("accesibilidad")>>
     >>,
     requiredParameters |-> <<>>,
     optionalParameters |-> <<"sessionId">>,
     examples |-> <<"describir todos los elementos", "describe all elements",
       "mostrar elementos de accesibilidad">>,
     parameterExtractors |-> <<>>],
    [command |-> "describe point",
     patterns |-> <<
       <<Lit("describir"), S1, Lit("punto"), S1, Group("x", <<Many("digit", 1)>>), S0, Lit(","), S0,
         Group("y", <<Many("digit", 1)>>)>>,
       <<Lit("describe"), S1, Lit("point"), S1, Group("x", <<Many("digit", 1)>>), S0, Lit(","), S0,
         Group("y", <<Many("digit", 1)>>)>>,
       <<Lit("qué"), S1, Lit("hay"), S1, Lit("en"), S1, Group("x", <<Many("digit", 1)>>), S0,
         Lit(","), S0, Group("y", <<Many("digit", 1)>>)>>
     >>,
     requiredParameters |-> <<"x", "y">>,
     optionalParameters |-> <<"sessionId">>,
     examples |-> <<"describir punto 100, 200", "describe point 150, 300", "qué hay en 200, 400">>,
     parameterExtractors |-> <<[name |-> "x", group |-> "x", kind |-> "parseInt"], [name |-> "y",
       group |-> "y", kind |-> "parseInt"]>>]
  >>

\* the definitions of CaptureCommands, in declaration order (/i on every pattern)
CaptureCommands ==
  <<
    [command |-> "capture screen",
     patterns |-> <<
       <<Lit("capturar"), S1, Opt(<<Lit("la"), S1>>), Lit("pantalla"), Opt(<<S1, Lit("en"), S1,
         Group("outputPath", <<Many("notSpaceComma", 1)>>)>>)>>,
       <<Lit("screenshot"), Opt(<<S1, Lit("en"), S1, Group("outputPath", <<Many("notSpaceComma",
         1)>>)>>)>>,
       <<Lit("tomar"), S1, Opt(<<Lit("una"), S1>>), Lit("captura"), Opt(<<S1, Lit("en"), S1,
         Group("outputPath", <<Many("notSpaceComma", 1)>>)>>)>>,
       <<Lit("capture"), S1, Opt(<<Lit("the"), S1>>), Lit("screen"), Opt(<<S1, Lit("to"), S1,
         Group("outputPath", <<Many("notSpaceComma", 1)>>)>>)>>,
       <<Lit("take"), S1, Opt(<<Lit("a"), S1>>), Lit("screenshot"), Opt(<<S1, Lit("to"), S1,
         Group("outputPath", <<Many("notSpaceComma", 1)>>)>>)>>
     >>,
     requiredParameters |-> <<>>,
     optionalParameters |-> <<"outputPath", "sessionId">>,
     examples |-> <<"capturar pantalla", "screenshot en /ruta/captura.png", "tomar una captura",
       "capture screen", "take screenshot to /path/capture.png">>,
     parameterExtractors |-> <<[name |-> "outputPath", group |-> "outputPath", kind |-> "trim"]>>],
    [command |-> "record video",
     patterns |-> <<
       <<Lit("grabar"), S1, Lit("video"), S1, Group("outputPath", <<Many("notSpaceComma", 1)>>)>>,
       <<Lit("record"), S1, Lit("video"), S1, Group("outputPath", <<Many("notSpaceComma", 1)>>)>>,
       <<Lit("iniciar"), S1, Lit("grabación"), S1, Lit("de"), S1, Lit("video"), S1,
         Group("outputPath", <<Many("notSpaceComma", 1)>>)>>,
       <<Lit("start"), S1, Lit("recording"), S1, Lit("video"), S1, Group("outputPath",
         <<Many("notSpaceComma", 1)>>)>>,
       <<Lit("begin"), S1, Lit("video"), S1, Lit("recording"), S1, Group("outputPath",
         <<Many("notSpaceComma", 1)>>)>>
     >>,
     requiredParameters |-> <<"outputPath">>,
     optionalParameters |-> <<"sessionId">>,
     examples |-> <<"grabar video /ruta/video.mp4", "record video /tmp/captura.mp4",
       "iniciar grabación de video /ruta/salida.mp4", "record video /path/video.mp4",
       "start recording video /path/output.mp4">>,
     parameterExtractors |-> <<[name |-> "outputPath", group |-> "outputPath", kind |-> "trim"]>>],
    [command |-> "stop recording",
     patterns |-> <<
       <<Lit("detener"), S1, Lit("grabación"), Opt(<<S1, Lit("de"), S1, Lit("video")>>)>>,
       <<Lit("parar"), S1, Lit("grabación"), Opt(<<S1, Lit("de"), S1, Lit("video")>>)>>,
       <<Lit("stop"), S1, Lit("recording")>>,
       <<Lit("end"), S1, Lit("recording")>>,
       <<Lit("stop"), S1, Lit("video"), S1, Lit("recording")>>
     >>,
     requiredParameters |-> <<>>,
     optionalParameters |-> <<"recordingId", "sessionId">>,
     examples |-> <<"detener grabación", "parar grabación de video", "stop recording",
       "end recording", "stop video recording">>,
     parameterExtractors |-> <<>>],
    [command |-> "get logs",
     patterns |-> <<
       <<Lit("obtener"), S1, Lit("logs"), Opt(<<S1, Lit("de"), S1, Group("bundleId",
         <<Many("notSpaceComma", 1)>>)>>)>>,
       <<Lit("mostrar"), S1, Lit("logs"), Opt(<<S1, Lit("de"), S1, Group("bundleId",
         <<Many("notSpaceComma", 1)>>)>>)>>,
       <<Lit("get"), S1, Lit("logs"), Opt(<<S1, Lit("for"), S1, Group("bundleId",
         <<Many("notSpaceComma", 1)>>)>>)>>,
       <<Lit("show"), S1, Lit("logs"), Opt(<<S1, Lit("for"), S1, Group("bundleId",
         <<Many("notSpaceComma", 1)>>)>>)>>,
       <<Lit("display"), S1, Lit("logs"), Opt(<<S1, Lit("for"), S1, Group("bundleId",
         <<Many("notSpaceComma", 1)>>)>>)>>
     >>,
     requiredParameters |-> <<>>,
     optionalParameters |-> <<"bundleId", "limit", "sessionId">>,
     examples |-> <<"obtener logs", "mostrar logs de com.example.app",
       "get logs for com.apple.mobilesafari", "show logs", "display logs for com.example.app">>,
     parameterExtractors |-> <<[name |-> "bundleId", group |-> "bundleId", kind |-> "trim"]>>]
  >>

\* the definitions of DebugCommands, in declaration order (/i on every pattern)
DebugCommands ==
  <<
    [command |-> "start debug",
     patterns |-> <<
       <<Lit("iniciar"), S1, Lit("debug"), S1, Group("bundleId", <<Many("notSpaceComma", 1)>>)>>,
       <<Lit("start"), S1, Lit("debug"), S1, Group("bundleId", <<Many("notSpaceComma", 1)>>)>>,
       <<Lit("debug"), S1, Lit("app"), S1, Group("bundleId", <<Many("notSpaceComma", 1)>>)>>,
       <<Lit("begin"), S1, Lit("debug"), S1, Group("bundleId", <<Many("notSpaceComma", 1)>>)>>,
       <<Lit("launch"), S1, Lit("debug"), S1, Group("bundleId", <<Many("notSpaceComma", 1)>>)>>
     >>,
     requiredParameters |-> <<"bundleId">>,
     optionalParameters |-> <<"sessionId">>,
     examples |-> <<"iniciar debug com.example.app", "start debug com.apple.mobilesafari",
       "debug app com.example.app", "begin debug com.example.app",
       "launch debug com.apple.mobilesafari">>,
     parameterExtractors |-> <<[name |-> "bundleId", group |-> "bundleId", kind |-> "trim"]>>],
    [command |-> "stop debug",
     patterns |-> <<
       <<Lit("detener"), S1, Lit("debug")>>,
       <<Lit("parar"), S1, Lit("debug")>>,
       <<Lit("stop"), S1, Lit("debug")>>,
       <<Lit("end"), S1, Lit("debug")>>,
       <<Lit("terminate"), S1, Lit("debug")>>
     >>,
     requiredParameters |-> <<>>,
     optionalParameters |-> <<"sessionId">>,
     examples |-> <<"detener debug", "parar debug", "stop debug", "end debug", "terminate debug">>,
     parameterExtractors |-> <<>>],
    [command |-> "debug status",
     patterns |-> <<
       <<Lit("estado"), S1, Lit("debug")>>,
       <<Lit("status"), S1, Lit("debug")>>,
       <<Lit("información"), S1, Lit("debug")>>,
       <<Lit("debug"), S1, Lit("status")>>,
       <<Lit("get"), S1, Lit("debug"), S1, Lit("status")>>
     >>,
     requiredParameters |-> <<>>,
     optionalParameters |-> <<"sessionId">>,
     examples |-> <<"estado debug", "status debug", "información debug", "debug status",
       "get debug status">>,
     parameterExtractors |-> <<>>],
    [command |-> "list crash logs",
     patterns |-> <<
       <<Lit("listar"), S1, Lit("crash"), S1, Lit("logs")>>,
       <<Lit("mostrar"), S1, Lit("crash"), S1, Lit("logs")>>,
       <<Lit("list"), S1, Lit("crash"), S1, Lit("logs")>>,
       <<Lit("show"), S1, Lit("crash"), S1, Lit("logs")>>,
       <<Lit("display"), S1, Lit("crash"), S1, Lit("logs")>>
     >>,
     requiredParameters |-> <<>>,
     optionalParameters |-> <<"bundleId", "sessionId">>,
     examples |-> <<"listar crash logs", "mostrar crash logs", "list crash logs", "show crash logs",
       "display crash logs">>,
     parameterExtractors |-> <<>>],
    [command |-> "show crash log",
     patterns |-> <<
       <<Lit("mostrar"), S1, Lit("crash"), S1, Lit("log"), S1, Group("crashName",
         <<Many("notSpaceComma", 1)>>)>>,
       <<Lit("ver"), S1, Lit("crash"), S1, Lit("log"), S1, Group("crashName",
         <<Many("notSpaceComma", 1)>>)>>,
       <<Lit("show"), S1, Lit("crash"), S1, Lit("log"), S1, Group("crashName",
         <<Many("notSpaceComma", 1)>>)>>,
       <<Lit("display"), S1, Lit("crash"), S1, Lit("log"), S1, Group("crashName",
         <<Many("notSpaceComma", 1)>>)>>,
       <<Lit("view"), S1, Lit("crash"), S1, Lit("log"), S1, Group("crashName",
         <<Many("notSpaceComma", 1)>>)>>
     >>,
     requiredParameters |-> <<"crashName">>,
     optionalParameters |-> <<"sessionId">>,
     examples |-> <<"mostrar crash log crash_2023-01-01", "ver crash log app_crash_123",
       "show crash log system_crash", "display crash log error_log_123",
       "view crash log app_crash_456">>,
     parameterExtractors |-> <<[name |-> "crashName", group |-> "crashName", kind |-> "trim"]>>],
    [command |-> "delete crash logs",
     patterns |-> <<
       <<Lit("eliminar"), S1, Lit("crash"), S1, Lit("logs")>>,
       <<Lit("borrar"), S1, Lit("crash"), S1, Lit("logs")>>,
       <<Lit("delete"), S1, Lit("crash"), S1, Lit("logs")>>,
       <<Lit("remove"), S1, Lit("crash"), S1, Lit("logs")>>,
       <<Lit("clear"), S1, Lit("crash"), S1, Lit("logs")>>
     >>,
     requiredParameters |-> <<>>,
     optionalParameters |-> <<"bundleId", "sessionId", "all">>,
     examples |-> <<"eliminar crash logs", "borrar crash logs", "delete crash logs",
       "remove crash logs", "clear crash logs">>,
     parameterExtractors |-> <<>>]
  >>

\* the definitions of MiscCommands, in declaration order (/i on every pattern)
MiscCommands ==
  <<
    [command |-> "install dylib",
     patterns |-> <<
       <<Lit("instalar"), S1, Lit("dylib"), S1, Group("dylibPath", <<Many("notSpaceComma", 1)>>)>>,
       <<Lit("install"), S1, Lit("dylib"), S1, Group("dylibPath", <<Many("notSpaceComma", 1)>>)>>,
       <<Lit("add"), S1, Lit("dylib"), S1, Group("dylibPath", <<Many("notSpaceComma", 1)>>)>>,
       <<Lit("load"), S1, Lit("dylib"), S1, Group("dylibPath", <<Many("notSpaceComma", 1)>>)>>
     >>,
     requiredParameters |-> <<"dylibPath">>,
     optionalParameters |-> <<"sessionId">>,
     examples |-> <<"instalar dylib /ruta/a/lib.dylib", "install dylib /tmp/library.dylib",
       "add dylib /path/to/lib.dylib", "load dylib /path/to/library.dylib">>,
     parameterExtractors |-> <<[name |-> "dylibPath", group |-> "dylibPath", kind |-> "trim"]>>],
    [command |-> "open url",
     patterns |-> <<
       <<Lit("abrir"), S1, Lit("url"), S1, Group("url", <<Many("notSpace", 1)>>)>>,
       <<Lit("open"), S1, Lit("url"), S1, Group("url", <<Many("notSpace", 1)>>)>>,
       <<Lit("navegar"), S1, Lit("a"), S1, Group("url", <<Many("notSpace", 1)>>)>>,
       <<Lit("navigate"), S1, Lit("to"), S1, Group("url", <<Many("notSpace", 1)>>)>>,
       <<Lit("browse"), S1, Lit("to"), S1, Group("url", <<Many("notSpace", 1)>>)>>
     >>,
     requiredParameters |-> <<"url">>,
     optionalParameters |-> <<"sessionId">>,
     examples |-> <<"abrir url https://example.com", "open url https://google.com",
       "navegar a https://apple.com", "navigate to https://example.com",
       "browse to https://apple.com">>,
     parameterExtractors |-> <<[name |-> "url", group |-> "url", kind |-> "trim"]>>],
    [command |-> "clear keychain",
     patterns |-> <<
       <<Lit("limpiar"), S1, Lit("keychain")>>,
       <<Lit("clear"), S1, Lit("keychain")>>,
       <<Lit("borrar"), S1, Lit("keychain")>>,
       <<Lit("reset"), S1, Lit("keychain")>>,
       <<Lit("empty"), S1, Lit("keychain")>>
     >>,
     requiredParameters |-> <<>>,
     optionalParameters |-> <<"sessionId">>,
     examples |-> <<"limpiar keychain", "clear keychain", "borrar keychain", "reset keychain",
       "empty keychain">>,
     parameterExtractors |-> <<>>],
    [command |-> "set location",
     patterns |-> <<
       <<Lit("establecer"), S1, Lit("ubicación"), S1, Group("latitude", <<Opt(<<Lit("-")>>),
         Many("digit", 1), Opt(<<Lit("."), Many("digit", 1)>>)>>), S0, Lit(","), S0,
         Group("longitude", <<Opt(<<Lit("-")>>), Many("digit", 1), Opt(<<Lit("."), Many("digit",
         1)>>)>>)>>,
       <<Lit("set"), S1, Lit("location"), S1, Group("latitude", <<Opt(<<Lit("-")>>), Many("digit",
         1), Opt(<<Lit("."), Many("digit", 1)>>)>>), S0, Lit(","), S0, Group("longitude",
         <<Opt(<<Lit("-")>>), Many("digit", 1), Opt(<<Lit("."), Many("digit", 1)>>)>>)>>,
       <<Lit("cambiar"), S1, Lit("ubicación"), S1, Lit("a"), S1, Group("latitude",
         <<Opt(<<Lit("-")>>), Many("digit", 1), Opt(<<Lit("."), Many("digit", 1)>>)>>), S0,
         Lit(","), S0, Group("longitude", <<Opt(<<Lit("-")>>), Many("digit", 1), Opt(<<Lit("."),
         Many("digit", 1)>>)>>)>>,
       <<Lit("update"), S1, Lit("location"), S1, Group("latitude", <<Opt(<<Lit("-")>>),
         Many("digit", 1), Opt(<<Lit("."), Many("digit", 1)>>)>>), S0, Lit(","), S0,
         Group("longitude", <<Opt(<<Lit("-")>>), Many("digit", 1), Opt(<<Lit("."), Many("digit",
         1)>>)>>)>>,
       <<Lit("change"), S1, Lit("location"), S1, Lit("to"), S1, Group("latitude",
         <<Opt(<<Lit("-")>>), Many("digit", 1), Opt(<<Lit("."), Many("digit", 1)>>)>>), S0,
         Lit(","), S0, Group("longitude", <<Opt(<<Lit("-")>>), Many("digit", 1), Opt(<<Lit("."),
         Many("digit", 1)>>)>>)>>
     >>,
     requiredParameters |-> <<"latitude", "longitude">>,
     optionalParameters |-> <<"sessionId">>,
     examples |-> <<"establecer ubicación 37.7749, -122.4194", "set location 40.7128, -74.0060",
       "cambiar ubicación a 51.5074, -0.1278", "update location 48.8566, 2.3522",
       "change location to 35.6762, 139.6503">>,
     parameterExtractors |-> <<[name |-> "latitude", group |-> "latitude", kind |-> "parseFloat"],
       [name |-> "longitude", group |-> "longitude", kind |-> "parseFloat"]>>],
    [command |-> "add media",
     patterns |-> <<
       <<Lit("añadir"), S1, Lit("media"), S1, Group("mediaPaths", <<Many("any", 1)>>)>>,
       <<Lit("add"), S1, Lit("media"), S1, Group("mediaPaths", <<Many("any", 1)>>)>>,
       <<Lit("importar"), S1, Lit("multimedia"), S1, Group("mediaPaths", <<Many("any", 1)>>)>>,
       <<Lit("import"), S1, Lit("media"), S1, Group("mediaPaths", <<Many("any", 1)>>)>>,
       <<Lit("upload"), S1, Lit("media"), S1, Group("mediaPaths", <<Many("any", 1)>>)>>
     >>,
     requiredParameters |-> <<"mediaPaths">>,
     optionalParameters |-> <<"sessionId">>,
     examples |-> <<"añadir media /ruta/imagen.jpg /ruta/video.mp4", "add media /tmp/photo.png",
       "importar multimedia /ruta/a/fotos/*.jpg", "import media /path/to/photos/*.jpg",
       "upload media /path/video.mp4">>,
     parameterExtractors |-> <<[name |-> "mediaPaths", group |-> "mediaPaths", kind |-> "split"]>>],
    [command |-> "approve permissions",
     patterns |-> <<
       <<Lit("aprobar"), S1, Lit("permisos"), S1, Group("bundleId", <<Many("notSpaceComma", 1)>>),
         S1, Group("permissions", <<Many("any", 1)>>)>>,
       <<Lit("approve"), S1, Lit("permissions"), S1, Group("bundleId", <<Many("notSpaceComma",
         1)>>), S1, Group("permissions", <<Many("any", 1)>>)>>,
       <<Lit("dar"), S1, Lit("permisos"), S1, Lit("a"), S1, Group("bundleId",
         <<Many("notSpaceComma", 1)>>), S1, Group("permissions", <<Many("any", 1)>>)>>,
       <<Lit("grant"), S1, Lit("permissions"), S1, Group("bundleId", <<Many("notSpaceComma", 1)>>),
         S1, Group("permissions", <<Many("any", 1)>>)>>,
       <<Lit("allow"), S1, Lit("permissions"), S1, Group("bundleId", <<Many("notSpaceComma", 1)>>),
         S1, Group("permissions", <<Many("any", 1)>>)>>
     >>,
     requiredParameters |-> <<"bundleId", "permissions">>,
     optionalParameters |-> <<"sessionId">>,
     examples |-> <<"aprobar permisos com.example.app photos camera",
       "approve permissions com.apple.mobilesafari contacts",
       "dar permisos a com.example.app photos", "grant permissions com.example.app camera",
       "allow permissions com.example.app location">>,
     parameterExtractors |-> <<[name |-> "bundleId", group |-> "bundleId", kind |-> "trim"],
       [name |-> "permissions", group |-> "permissions", kind |-> "split"]>>],
    [command |-> "update contacts",
     patterns |-> <<
       <<Lit("actualizar"), S1, Lit("contactos"), S1, Group("dbPath", <<Many("notSpaceComma",
         1)>>)>>,
       <<Lit("update"), S1, Lit("contacts"), S1, Group("dbPath", <<Many("notSpaceComma", 1)>>)>>,
       <<Lit("importar"), S1, Lit("contactos"), S1, Group("dbPath", <<Many("notSpaceComma", 1)>>)>>,
       <<Lit("import"), S1, Lit("contacts"), S1, Group("dbPath", <<Many("notSpaceComma", 1)>>)>>,
       <<Lit("load"), S1, Lit("contacts"), S1, Group("dbPath", <<Many("notSpaceComma", 1)>>)>>
     >>,
     requiredParameters |-> <<"dbPath">>,
     optionalParameters |-> <<"sessionId">>,
     examples |-> <<"actualizar contactos /ruta/a/contactos.sqlite",
       "update contacts /tmp/contacts.db", "importar contactos /ruta/contacts.sqlite",
       "import contacts /path/to/contacts.db", "load contacts /path/contacts.sqlite">>,
     parameterExtractors |-> <<[name |-> "dbPath", group |-> "dbPath", kind |-> "trim"]>>]
  >>
----------------------------------------------------------------------------
(* BaseCommandDefinition.parseCommand and CommandRegistry *)

Confidence == 9   \* tenths: confidence 0.9

\* a parameter extractor applied to a match
Extract(kind, groups, group) ==
  LET present == group \in DOMAIN groups
      captured == IF present THEN groups[group] ELSE ""
  IN  CASE kind = "trim" -> IF present THEN Str(Trim(captured)) ELSE Undef
        [] kind = "trimToUpperCase" -> IF present THEN Str(ToUpperCase(Trim(captured))) ELSE Undef
        [] kind = "parseInt" -> parseInt(IF captured = "" THEN "0" ELSE captured)
        [] kind = "parseIntIfPresent" -> IF captured = "" THEN Undef ELSE parseInt(captured)
        [] kind = "parseFloat" -> parseFloat(IF captured = "" THEN "0" ELSE captured)
        [] kind = "split" ->
             IF present
             THEN LET Strings(words) == Arr([i \in DOMAIN words |-> Str(words[i])])
                  IN  Strings(Split(Trim(captured)))
             ELSE Undef
        [] kind = "splitParseInt" ->
             IF present
             THEN LET ParsedInts(words) == Arr([i \in DOMAIN words |-> parseInt(words[i])])
                  IN  ParsedInts(Split(Trim(captured)))
             ELSE Undef

\* the parameters the extractors from i on give; undefined values are left out
RECURSIVE ExtractFrom(_, _, _)
ExtractFrom(extractors, i, groups) ==
  IF i > Len(extractors) THEN NoGroups
  ELSE LET Assigned(value, others) ==
             IF value = Undef THEN others ELSE (extractors[i].name :> value) @@ others
       IN  Assigned(Extract(extractors[i].kind, groups, extractors[i].group),
                    ExtractFrom(extractors, i + 1, groups))

\* the first pattern of the definition, from the j-th on, that matches
RECURSIVE FirstPattern(_, _, _)
FirstPattern(definition, j, normalizedText) ==
  IF j > Len(definition.patterns) THEN NoMatch
  ELSE LET Tried(match) ==
             IF match.ok THEN match ELSE FirstPattern(definition, j + 1, normalizedText)
       IN  Tried(StringMatch(normalizedText, definition.patterns[j]))

RECURSIVE ParseFrom(_, _, _, _)
ParseFrom(definitions, i, normalizedText, text) ==
  IF i > Len(definitions) THEN NullV
  ELSE LET Matched(match) ==
             IF match.ok
             THEN [command |-> definitions[i].command,
                   parameters |-> ExtractFrom(definitions[i].parameterExtractors, 1,
                                              match.groups),
                   confidence |-> Confidence,
                   originalText |-> text]
             ELSE ParseFrom(definitions, i + 1, normalizedText, text)
       IN  Matched(FirstPattern(definitions[i], 1, normalizedText))

parseCommand_LastDefinitionFirst(definitions, text) ==
  ParseFrom([i \in 1..Len(definitions) |-> definitions[Len(definitions) + 1 - i]], 1,
            ToLowerCase(Trim(text)), text)

\* BaseCommandDefinition.parseCommand: a parse result, or null
parseCommand(definitions, text) == ParseFrom(definitions, 1, ToLowerCase(Trim(text)), text)

\* the handlers in the order the NLParser constructor registers them
commandHandlers ==
  <<SimulatorCommands, AppCommands, UICommands, AccessibilityCommands, CaptureCommands,
    DebugCommands, MiscCommands>>

RECURSIVE ParseWith(_, _, _)
ParseWith(handlers, i, text) ==
  IF i > Len(handlers)
  THEN Throws("Could not understand the instruction: " \o text)
  ELSE LET Handled(result) ==
             IF result # NullV THEN Resolves(result) ELSE ParseWith(handlers, i + 1, text)
       IN  Handled(parseCommand(handlers[i], text))

\* CommandRegistry.parseInstruction
CommandRegistry_parseInstruction(text) == ParseWith(commandHandlers, 1, text)

RECURSIVE Flatten(_)
Flatten(lists) == IF Len(lists) = 0 THEN <<>> ELSE Head(lists) \o Flatten(Tail(lists))

\* CommandRegistry.getSupportedCommands
getSupportedCommands == Flatten(commandHandlers)

----------------------------------------------------------------------------
(* NLParser *)

parseInstruction(text) == CommandRegistry_parseInstruction(text)

FindCommand_FirstDefinition(supportedCommands, command, i) == supportedCommands[i]

\* supportedCommands.find(cmd => cmd.command === command), from position i on
RECURSIVE FindCommand(_, _, _)
FindCommand(supportedCommands, command, i) ==
  IF i > Len(supportedCommands) THEN Undef
  ELSE IF supportedCommands[i].command = command THEN supportedCommands[i]
  ELSE FindCommand(supportedCommands, command, i + 1)

validateInstruction_ByValue(parseResult) ==
  LET Verified(missingParameters, invalidParameters) ==
        IF Len(missingParameters) > 0
        THEN [isValid |-> FALSE, missingParameters |-> missingParameters,
              errorMessage |-> Str("Missing required parameters: "
                                     \o Join(missingParameters, ", "))]
        ELSE IF invalidParameters # {}
        THEN [isValid |-> FALSE, invalidParameters |-> invalidParameters,
              errorMessage |-> Str("Some parameters have invalid values")]
        ELSE [isValid |-> TRUE, errorMessage |-> Undef]
      Defined(definition) ==
        IF definition = Undef
        THEN [isValid |-> FALSE,
              errorMessage |-> Str("Unrecognized command: " \o parseResult.command)]
        ELSE Verified(SelectSeq(definition.requiredParameters,
                                LAMBDA param :
                                  \/ param \notin DOMAIN parseResult.parameters
                                  \/ parseResult.parameters[param] = Undef),
                      { param \in DOMAIN parseResult.parameters :
                          parseResult.parameters[param].t \in {"undefined", "null"} })
  IN  Defined(FindCommand(getSupportedCommands, parseResult.command, 1))

validateInstruction(parseResult) ==
  LET Verified(missingParameters, invalidParameters) ==
        IF Len(missingParameters) > 0
        THEN [isValid |-> FALSE, missingParameters |-> missingParameters,
              errorMessage |-> Str("Missing required parameters: "
                                     \o Join(missingParameters, ", "))]
        ELSE IF invalidParameters # {}
        THEN [isValid |-> FALSE, invalidParameters |-> invalidParameters,
              errorMessage |-> Str("Some parameters have invalid values")]
        ELSE [isValid |-> TRUE, errorMessage |-> Undef]
      Defined(definition) ==
        IF definition = Undef
        THEN [isValid |-> FALSE,
              errorMessage |-> Str("Unrecognized command: " \o parseResult.command)]
        ELSE Verified(SelectSeq(definition.requiredParameters,
                                LAMBDA param : param \notin DOMAIN parseResult.parameters),
                      { param \in DOMAIN parseResult.parameters :
                          parseResult.parameters[param].t \in {"undefined", "null"} })
  IN  Defined(FindCommand(getSupportedCommands, parseResult.command, 1))

\* the two passes of normalizeParameters over one value
NormalizeValue(value) ==
  LET Booleans(v1) ==
        IF v1.t = "string" /\ ToLowerCase(v1.s) \in {"true", "false"}
        THEN Bool(ToLowerCase(v1.s) = "true") ELSE v1
      Numbers(n) == Booleans(IF value.t = "string" /\ n # NaN THEN n ELSE value)
  IN  Numbers(StringToNumber(value.s))

normalizeParameters_BooleansAsDigits(parseResult) ==
  [parseResult EXCEPT !.parameters =
     [key \in DOMAIN @ |->
        IF @[key].t = "string" /\ ToLowerCase(@[key].s) \in {"true", "false"}
        THEN Str(IF ToLowerCase(@[key].s) = "true" THEN "1" ELSE "0")
        ELSE NormalizeValue(@[key])]]

normalizeParameters(parseResult) ==
  [parseResult EXCEPT !.parameters = [key \in DOMAIN @ |-> NormalizeValue(@[key])]]

----------------------------------------------------------------------------
(* ParserToOrchestrator *)

DefaultTimeout == 30000
DefaultRetries == 1

\* the name-to-kind table, in insertion order
commandMappings ==
  << [key |-> "crear sesión", type |-> CREATE_SIMULATOR_SESSION],
     [key |-> "crear simulador", type |-> CREATE_SIMULATOR_SESSION],
     [key |-> "iniciar simulador", type |-> CREATE_SIMULATOR_SESSION],
     [key |-> "terminar sesión", type |-> TERMINATE_SIMULATOR_SESSION],
     [key |-> "cerrar simulador", type |-> TERMINATE_SIMULATOR_SESSION],
     [key |-> "listar simuladores", type |-> LIST_AVAILABLE_SIMULATORS],
     [key |-> "mostrar simuladores", type |-> LIST_AVAILABLE_SIMULATORS],
     [key |-> "listar simuladores arrancados", type |-> LIST_BOOTED_SIMULATORS],
     [key |-> "arrancar simulador", type |-> BOOT_SIMULATOR],
     [key |-> "apagar simulador", type |-> SHUTDOWN_SIMULATOR],
     [key |-> "instalar app", type |-> INSTALL_APP],
     [key |-> "instalar aplicación", type |-> INSTALL_APP],
     [key |-> "lanzar app", type |-> LAUNCH_APP],
     [key |-> "abrir app", type |-> LAUNCH_APP],
     [key |-> "iniciar app", type |-> LAUNCH_APP],
     [key |-> "cerrar app", type |-> TERMINATE_APP],
     [key |-> "terminar app", type |-> TERMINATE_APP],
     [key |-> "tap", type |-> TAP],
     [key |-> "tocar", type |-> TAP],
     [key |-> "pulsar", type |-> TAP],
     [key |-> "swipe", type |-> SWIPE],
     [key |-> "deslizar", type |-> SWIPE],
     [key |-> "capturar pantalla", type |-> TAKE_SCREENSHOT],
     [key |-> "screenshot", type |-> TAKE_SCREENSHOT],
     [key |-> "captura", type |-> TAKE_SCREENSHOT],
     [key |-> "logs", type |-> GET_SYSTEM_LOGS],
     [key |-> "logs del sistema", type |-> GET_SYSTEM_LOGS],
     [key |-> "logs de app", type |-> GET_APP_LOGS],
     [key |-> "verificar simulador", type |-> IS_SIMULATOR_BOOTED],
     [key |-> "comprobar simulador", type |-> IS_SIMULATOR_BOOTED],
     [key |-> "verificar app", type |-> IS_APP_INSTALLED],
     [key |-> "comprobar app", type |-> IS_APP_INSTALLED] >>

\* the first entry of the table, from the i-th on, that satisfies Test; 0 when none
RECURSIVE FirstMapping(_, _, _)
FirstMapping(lowerCommand, exact, i) ==
  IF i > Len(commandMappings) THEN 0
  ELSE IF (IF exact THEN commandMappings[i].key = lowerCommand
           ELSE Includes(lowerCommand, commandMappings[i].key))
  THEN i
  ELSE FirstMapping(lowerCommand, exact, i + 1)

mapToCommandType_SubstringFirst(naturalCommand) ==
  LET Looked(exact, partial) ==
        IF partial # 0 THEN Resolves(commandMappings[partial].type)
        ELSE IF exact # 0 THEN Resolves(commandMappings[exact].type)
        ELSE Throws("Could not map command \"" \o naturalCommand \o "\" to a CommandType")
      Lowered(lowerCommand) ==
        Looked(FirstMapping(lowerCommand, TRUE, 1), FirstMapping(lowerCommand, FALSE, 1))
  IN  Lowered(ToLowerCase(naturalCommand))

\* ParserToOrchestrator.mapToCommandType: the kind, or the error thrown
mapToCommandType(naturalCommand) ==
  LET Looked(exact, partial) ==
        IF exact # 0 THEN Resolves(commandMappings[exact].type)
        ELSE IF partial # 0 THEN Resolves(commandMappings[partial].type)
        ELSE Throws("Could not map command \"" \o naturalCommand \o "\" to a CommandType")
      Lowered(lowerCommand) ==
        Looked(FirstMapping(lowerCommand, TRUE, 1), FirstMapping(lowerCommand, FALSE, 1))
  IN  Lowered(ToLowerCase(naturalCommand))

\* parameters[name] = Number(parameters[name]) when it is not undefined
NumberAt(parameters, names) ==
  [key \in DOMAIN parameters |->
     IF key \in names /\ parameters[key] # Undef THEN ToNumber(parameters[key])
     ELSE parameters[key]]

convertParameters(commandType, parserParameters) ==
  CASE commandType = TAP -> NumberAt(parserParameters, {"x", "y"})
    [] commandType = SWIPE ->
         NumberAt(parserParameters, {"startX", "startY", "endX", "endY", "duration"})
    [] commandType = CREATE_SIMULATOR_SESSION ->
         [key \in DOMAIN parserParameters |->
            IF key = "autoboot" /\ parserParameters[key].t = "string"
            THEN Bool(ToLowerCase(parserParameters[key].s) = "true")
            ELSE parserParameters[key]]
    [] OTHER -> parserParameters

\* CommandFactoryImpl.createCommand; id is the identifier uuidv4() returns
createCommand(type, parameters, description, id) ==
  [id |-> id, type |-> type, parameters |-> parameters, description |-> description,
   timeout |-> DefaultTimeout, retries |-> DefaultRetries,
   validate |-> Absent, transformParameters |-> Absent, onError |-> Absent]

\* CommandFactoryImpl.createSequence; stopOnError defaults to true when the
\* argument is left out
createSequence(commands, stopOnError, id) ==
  [id |-> id, type |-> SEQUENCE,
   parameters |-> [commands |-> commands,
                   stopOnError |-> IF stopOnError = Undef THEN Bool(TRUE) ELSE stopOnError],
   description |-> "Sequence of " \o ToString(Len(commands)) \o " commands"]

\* CommandFactoryImpl.createConditional; ifFalse is a list of at most one command
createConditional(condition, ifTrue, ifFalse, id) ==
  [id |-> id, type |-> CONDITIONAL,
   parameters |-> [condition |-> condition, ifTrue |-> ifTrue, ifFalse |-> ifFalse],
   description |-> "Conditional command"]

\* ParserToOrchestrator.convertToCommand: the command, or the error thrown
convertToCommand(parseResult, id) ==
  LET Typed(commandType) ==
        IF commandType.k = "throw" THEN commandType
        ELSE Resolves(createCommand(commandType.v,
                                    convertParameters(commandType.v, parseResult.parameters),
                                    "Command generated from: \"" \o parseResult.originalText
                                      \o "\"",
                                    id))
  IN  Typed(mapToCommandType(parseResult.command))

----------------------------------------------------------------------------
(* MCPOrchestrator.processInstruction *)

\* the parser createMCPServer wires in
NLParser == [kind |-> "NLParser"]

\* a parser the caller supplies, given by what its three methods answer
StubParser(parse, validate, normalize) ==
  [kind |-> "stub", parseInstruction |-> parse, validateInstruction |-> validate,
   normalizeParameters |-> normalize]

Parser_parseInstruction(p, instruction) ==
  IF p.kind = "NLParser" THEN parseInstruction(instruction) ELSE p.parseInstruction

Parser_validateInstruction(p, parseResult) ==
  IF p.kind = "NLParser" THEN Resolves(validateInstruction(parseResult))
  ELSE p.validateInstruction

Parser_normalizeParameters(p, parseResult) ==
  IF p.kind = "NLParser" THEN Resolves(normalizeParameters(parseResult))
  ELSE p.normalizeParameters

ProcessCatch_Rethrows(msg, st, env) == Throw(msg, st)

\* the catch block of processInstruction (lines 144-151)
ProcessCatch(msg, st, env) == Return(Failure(ErrMessage(msg), env.now), st)

\* processInstruction after a successful parse (lines 126-143); the promise of
\* executeCommand is returned without being awaited
ProcessParsed(parseResult, st, env) ==
  LET Converted(command) ==
        IF command.k = "throw" THEN ProcessCatch(command.msg, st, env)
        ELSE executeCommand(command.v, st, env)
      Normalized(normalizedResult) ==
        IF normalizedResult.k = "throw" THEN ProcessCatch(normalizedResult.msg, st, env)
        ELSE Converted(convertToCommand(normalizedResult.v, env.id))
      Validated(validationResult) ==
        IF validationResult.k = "throw" THEN ProcessCatch(validationResult.msg, st, env)
        ELSE IF ~validationResult.v.isValid
        THEN Return(Failure(Or(validationResult.v.errorMessage, Str("Invalid instruction")).s,
                            env.now), st)
        ELSE Normalized(Parser_normalizeParameters(env.parser, parseResult))
  IN  Validated(Parser_validateInstruction(env.parser, parseResult))

\* MCPOrchestrator.processInstruction
processInstruction(instruction, st, env) ==
  LET Parsed(parseResult) ==
        IF parseResult.k = "throw" THEN ProcessCatch(parseResult.msg, st, env)
        ELSE ProcessParsed(parseResult.v, st, env)
  IN  Parsed(Parser_parseInstruction(env.parser, instruction))

----------------------------------------------------------------------------
(* Commands: the inputs of executeCommand *)

Atom(id, type, parameters, validate, transformParameters, onError) ==
  [id |-> id, type |-> type, parameters |-> parameters, validate |-> validate,
   transformParameters |-> transformParameters, onError |-> onError]

Plain(id, type, parameters) == Atom(id, type, parameters, Absent, Absent, Absent)

Sequence(id, commands, stopOnError) ==
  [id |-> id, type |-> SEQUENCE, parameters |-> [commands |-> commands, stopOnError |-> stopOnError]]

Conditional(id, condition, ifTrue, ifFalse) ==
  [id |-> id, type |-> CONDITIONAL,
   parameters |-> [condition |-> condition, ifTrue |-> ifTrue, ifFalse |-> ifFalse]]

\* the number of atomic commands in a command tree: no call of executeCommand
\* makes more backend calls than that
RECURSIVE Leaves(_)
RECURSIVE LeavesOfList(_, _)
LeavesOfList(commands, i) ==
  IF i > Len(commands) THEN 0 ELSE Leaves(commands[i]) + LeavesOfList(commands, i + 1)

Leaves(command) ==
  IF command.type = SEQUENCE THEN LeavesOfList(command.parameters.commands, 1)
  ELSE IF command.type = CONDITIONAL
       THEN Leaves(command.parameters.ifTrue) + LeavesOfList(command.parameters.ifFalse, 1)
  ELSE 1

\* an unsupported command kind, outside the CommandType enumeration
UnsupportedType == "focusSimulator"

\* explicit session ids a caller may put in the parameters (Undef: none)
ExplicitSessionIds == {Undef, Str(""), Str("s1"), Str("s3")}

\* the parameters of a hand-built command of a kind, with an explicit session id
ParametersOf(type, sessionId) ==
  LET base == CASE type = TAP -> [x |-> Num(100), y |-> Num(200)]
                [] type \in {LAUNCH_APP, TERMINATE_APP} -> [bundleId |-> Str("com.example.app")]
                [] type = CREATE_SIMULATOR_SESSION -> [udid |-> Str("test-simulator")]
                [] OTHER -> [description |-> Str("none")]
  IN  IF sessionId = Undef THEN base ELSE [sessionId |-> sessionId] @@ base

\* what the backend may answer to the call of an atomic command: a session
\* creation returns an identifier, possibly the empty string; any call may throw
Answers(command) ==
  IF command.type = CREATE_SIMULATOR_SESSION
  THEN {Resolves(Str("s2")), Resolves(Str("")), Throws("E1"), Throws("")}
  ELSE IF command.id = "c1" THEN {Resolves(Undef), Throws("E1"), Throws("")}
  ELSE {Resolves(Undef), Throws("E1")}

\* atomic commands without hooks
PlainCommands ==
  { Plain("c1", type, ParametersOf(type, sid)) :
      type \in {CREATE_SIMULATOR_SESSION, TERMINATE_SIMULATOR_SESSION, TAP, LAUNCH_APP,
                SHUTDOWN_SIMULATOR, UnsupportedType},
      sid \in ExplicitSessionIds }

\* atomic commands with a validation hook
ValidatedCommands ==
  { Atom("c2", type, ParametersOf(type, Undef), validate, Absent, Absent) :
      type \in {CREATE_SIMULATOR_SESSION, TERMINATE_SIMULATOR_SESSION, TAP},
      validate \in {Resolves(TRUE), Resolves(FALSE), Throws("E2"), Throws("")} }

\* atomic commands with a transform hook, alone or after a validation hook
TransformsOf(type) ==
  {Resolves(ParametersOf(type, Str("s3"))), Resolves(ParametersOf(type, Undef)), Throws("E3")}

TransformedCommands ==
  UNION { { Atom("c3", type, ParametersOf(type, sid), validate, transform, Absent) :
              sid \in {Undef, Str("s1")},
              validate \in {Absent, Resolves(TRUE), Resolves(FALSE)},
              transform \in TransformsOf(type) } :
          type \in {TAP, TERMINATE_SIMULATOR_SESSION} }

\* atomic commands with a custom error handler
HandledCommands ==
  { Atom("c4", type, ParametersOf(type, Undef), Absent, Absent, onError) :
      type \in {CREATE_SIMULATOR_SESSION, TERMINATE_SIMULATOR_SESSION, TAP, UnsupportedType},
      onError \in {Resolves(Success(Str("s4"), 0)), Resolves(Failure("handled", 0)),
                   Throws("E4")} }

\* atomic commands with all three hooks
HookedCommands ==
  { Atom("c5", TAP, ParametersOf(TAP, Undef), validate, transform,
         Resolves(Failure("handled", 0))) :
      validate \in {Resolves(TRUE), Throws("E2")},
      transform \in {Resolves([sessionId |-> Str("s3"), x |-> Num(1), y |-> Num(2)]),
                     Throws("E3")} }

AtomicCommands ==
  PlainCommands \cup ValidatedCommands \cup TransformedCommands \cup HandledCommands
    \cup HookedCommands

\* the commands composites are built from
Children ==
  { Plain("a", TAP, ParametersOf(TAP, Undef)),
    Plain("b", CREATE_SIMULATOR_SESSION, ParametersOf(CREATE_SIMULATOR_SESSION, Undef)),
    Plain("c", TERMINATE_SIMULATOR_SESSION, ParametersOf(TERMINATE_SIMULATOR_SESSION, Undef)),
    Atom("d", TAP, ParametersOf(TAP, Undef), Resolves(FALSE), Absent, Absent),
    Atom("e", TAP, ParametersOf(TAP, Undef), Throws("E2"), Absent, Absent),
    Atom("f", LAUNCH_APP, ParametersOf(LAUNCH_APP, Undef), Absent, Absent,
         Resolves(Success(Undef, 0))) }

\* lists of 1 .. n children; a child may occur more than once
ChildLists(n) == UNION { [1..k -> Children] : k \in 1..n }

SequenceCommands ==
  { Sequence("q", commands, stopOnError) :
      commands \in ChildLists(MaxChildren), stopOnError \in {Bool(TRUE), Bool(FALSE), Undef} }

ConditionalCommands ==
  { Conditional("k", condition, ifTrue, ifFalse) :
      condition \in {Resolves(TRUE), Resolves(FALSE), Throws("E5")},
      ifTrue \in Children,
      ifFalse \in {<<>>} \cup { <<c>> : c \in {Plain("a", TAP, ParametersOf(TAP, Undef)),
                                              Atom("e", TAP, ParametersOf(TAP, Undef),
                                                   Throws("E2"), Absent, Absent)} } }

\* a composite that carries an onError handler of its own
WithHandler(command, onError) ==
  [f \in DOMAIN command \cup {"onError"} |-> IF f = "onError" THEN onError ELSE command[f]]

HandledConditionals ==
  { WithHandler(Conditional("k", condition, Plain("a", TAP, ParametersOf(TAP, Undef)), <<>>),
                Resolves(Failure("handled", 0))) :
      condition \in {Resolves(TRUE), Throws("E5")} }

Commands ==
  AtomicCommands \cup SequenceCommands \cup ConditionalCommands \cup HandledConditionals

\* the backend's answers to the calls of one executeCommand
Oracles(command) ==
  IF command.type \in {SEQUENCE, CONDITIONAL}
  THEN [1..Leaves(command) -> {Resolves(Str("s2")), Resolves(Str("")), Throws("E1")}]
  ELSE [1..1 -> Answers(command)]

----------------------------------------------------------------------------
(* The public operations *)

\* the fields of a new MCPOrchestrator (lines 95-101)
Fresh ==
  /\ activeSessionId = NullV
  /\ commandHistory = <<>>
  /\ eventListeners = [e \in EventNames |-> <<>>]
  /\ now = 0
  /\ backendCalls = <<>>
  /\ hookCalls = <<>>
  /\ emitted = <<>>
  /\ delivered = <<>>
  /\ entered = <<>>
  /\ last = [op |-> "none"]
  /\ calls = 0

\* new MCPOrchestrator(new NLParser(), idbManager)
Init == parser = NLParser /\ Fresh

\* the orchestrator as a public call finds it
Entry ==
  [activeSessionId |-> activeSessionId, commandHistory |-> commandHistory,
   eventListeners |-> eventListeners, backendCalls |-> <<>>, hookCalls |-> <<>>,
   emitted |-> <<>>, delivered |-> <<>>, entered |-> <<>>, partial |-> <<>>,
   trace |-> <<>>, observed |-> <<>>]

\* the orchestrator as a public call leaves it
Leave(st) ==
  /\ activeSessionId' = st.activeSessionId
  /\ commandHistory' = st.commandHistory
  /\ eventListeners' = st.eventListeners
  /\ backendCalls' = st.backendCalls
  /\ hookCalls' = st.hookCalls
  /\ emitted' = st.emitted
  /\ delivered' = st.delivered
  /\ entered' = st.entered

Before == [activeSessionId |-> activeSessionId, historyLen |-> Len(commandHistory)]

\* the behaviour has calls left
Running == calls < MaxCalls

\* await orchestrator.executeCommand(command)
ExecuteCommand ==
  /\ Running
  /\ \E command \in Commands :
       \E oracle \in Oracles(command) :
         LET Settled(o) ==
               /\ Leave(o.st)
               /\ last' = [op |-> "executeCommand", command |-> command, result |-> o.res,
                           rejected |-> o.thrown, before |-> Before]
         IN  Settled(executeCommand(command, Entry, [oracle |-> oracle, now |-> now]))
  /\ calls' = calls + 1
  /\ UNCHANGED <<now, parser>>

\* orchestrator.setActiveSessionId(sessionId)
SetActiveSessionId ==
  /\ Running
  /\ \E sessionId \in {NullV, Str(""), Str("s1")} :
       /\ Leave(setActiveSessionId(Entry, sessionId))
       /\ last' = [op |-> "setActiveSessionId", sessionId |-> sessionId]
       /\ UNCHANGED <<now, calls, parser>>

RegistrationCount ==
  Len(eventListeners["sessionCreated"]) + Len(eventListeners["sessionTerminated"])
    + Len(eventListeners["sessionActivated"]) + Len(eventListeners["sessionDeactivated"])
    + Len(eventListeners["commandExecuted"])

\* orchestrator.on(event, listener)
On ==
  /\ Running
  /\ RegistrationCount < MaxListeners
  /\ \E event \in EventNames, listener \in Listeners :
       /\ Leave(on(Entry, event, listener))
       /\ last' = [op |-> "on", event |-> event, listener |-> listener]
  /\ UNCHANGED <<now, calls, parser>>

\* orchestrator.off(event, listener)
Off ==
  /\ Running
  /\ \E event \in EventNames, listener \in Listeners :
       /\ Leave(off(Entry, event, listener))
       /\ last' = [op |-> "off", event |-> event, listener |-> listener]
  /\ UNCHANGED <<now, calls, parser>>

Next == ExecuteCommand \/ SetActiveSessionId \/ On \/ Off

Spec == Init /\ [][Next]_vars

\* the instructions given to the pattern-matching parser
Instructions ==
  {"create session", "crear sesión", "tap at 100, 200", "tap en 100, 200", "  TAP 150, 300 ",
   "tocar en 5, 7", "invalid command here", "", "terminate session", "get logs",
   "swipe from 1, 2 to 3, 4", "start simulator 12", "tap 1, 2 end session",
   "close simulator, end session"}

\* the instruction given to a caller-supplied parser, and what it may parse it to
StubInstruction == "lanzar app com.example.app"

StubParseResults ==
  {[command |-> "lanzar app", parameters |-> [bundleId |-> Str("com.example.app")],
    confidence |-> 10, originalText |-> StubInstruction],
   [command |-> "crear sesión", parameters |-> NoGroups, confidence |-> 10,
    originalText |-> StubInstruction],
   [command |-> "unknown", parameters |-> NoGroups, confidence |-> 0,
    originalText |-> StubInstruction]}

StubValidationResults ==
  {[isValid |-> TRUE, errorMessage |-> Undef],
   [isValid |-> FALSE, errorMessage |-> Str("Invalid command")],
   [isValid |-> FALSE, errorMessage |-> Undef]}

StubParsers ==
  { StubParser(parse, validate, normalize) :
      parse \in {Resolves(r) : r \in StubParseResults} \cup {Throws("E5"), Throws("")},
      validate \in {Resolves(r) : r \in StubValidationResults} \cup {Throws("E6")},
      normalize \in {Resolves(r) : r \in StubParseResults} \cup {Throws("E7")} }

Parsers == {NLParser} \cup StubParsers

\* what the backend stub answers to the call an instruction leads to
InstructionAnswers == {Resolves(Str("s2")), Throws("E1")}

\* new MCPOrchestrator(parser, idbManager)
InitPipeline == parser \in Parsers /\ Fresh

\* await orchestrator.processInstruction(instruction)
ProcessInstruction ==
  /\ calls < MaxInstructions
  /\ \E instruction \in (IF parser = NLParser THEN Instructions ELSE {StubInstruction}),
        answer \in InstructionAnswers :
       LET Settled(o) ==
             /\ Leave(o.st)
             /\ last' = [op |-> "processInstruction", instruction |-> instruction,
                         answer |-> answer, result |-> o.res, rejected |-> o.thrown,
                         before |-> Before]
       IN  Settled(processInstruction(instruction, Entry,
                                      [oracle |-> <<answer>>, now |-> now, parser |-> parser,
                                       id |-> "cmd" \o ToString(calls + 1)]))
  /\ calls' = calls + 1
  /\ UNCHANGED <<now, parser>>

NextPipeline == ProcessInstruction

SpecPipeline == InitPipeline /\ [][NextPipeline]_vars

----------------------------------------------------------------------------
(* The orchestrator over several calls: history, clock and listeners *)

MaxHistory == 2
MaxRegistrations == 2
MaxClock == 1
MaxLimit == 3

\* the parser double of the orchestrator's tests: every instruction parses
\* to "lanzar app" and is valid
LaunchParse ==
  [command |-> "lanzar app", parameters |-> [bundleId |-> Str("com.example.app")],
   confidence |-> 10, originalText |-> StubInstruction]

LifecycleParser ==
  StubParser(Resolves(LaunchParse), Resolves([isValid |-> TRUE, errorMessage |-> Undef]),
             Resolves(LaunchParse))

\* new MCPOrchestrator(mockParser, mockIDBManager)
InitLifecycle == parser = LifecycleParser /\ Fresh

\* the commands given to executeCommand: one that reaches the backend and one
\* that its validate hook rejects
LifecycleCommands ==
  { Plain("a", TAP, ParametersOf(TAP, Undef)),
    Atom("d", TAP, ParametersOf(TAP, Undef), Resolves(FALSE), Absent, Absent) }

LifecycleAnswers == {Resolves(Undef), Throws("E1")}

\* the events listeners are registered for
LifecycleEvents == {"commandExecuted", "sessionActivated"}

\* what Date.now() may return during the next call: the clock does not go back
Times == { t \in {now, now + 1} : t <= MaxClock }

\* await orchestrator.executeCommand(command)
ExecuteLogged ==
  /\ Len(commandHistory) < MaxHistory
  /\ \E command \in LifecycleCommands, answer \in LifecycleAnswers, t \in Times :
       LET Settled(o) ==
             /\ Leave(o.st)
             /\ last' = [op |-> "executeCommand", command |-> command, answer |-> answer,
                         result |-> o.res, rejected |-> o.thrown, before |-> Before]
       IN  /\ Settled(executeCommand(command, Entry, [oracle |-> <<answer>>, now |-> t]))
           /\ now' = t
  /\ UNCHANGED <<calls, parser>>

\* await orchestrator.processInstruction(instruction)
ProcessLogged ==
  /\ Len(commandHistory) < MaxHistory
  /\ \E answer \in LifecycleAnswers, t \in Times :
       LET Settled(o) ==
             /\ Leave(o.st)
             /\ last' = [op |-> "processInstruction", instruction |-> StubInstruction,
                         answer |-> answer, result |-> o.res, rejected |-> o.thrown,
                         before |-> Before]
       IN  /\ Settled(processInstruction(StubInstruction, Entry,
                                         [oracle |-> <<answer>>, now |-> t, parser |-> parser,
                                          id |-> "cmd" \o ToString(Len(commandHistory) + 1)]))
           /\ now' = t
  /\ UNCHANGED <<calls, parser>>

\* orchestrator.setActiveSessionId(sessionId)
Activate ==
  /\ \E sessionId \in {NullV, Str("s1")} :
       /\ Leave(setActiveSessionId(Entry, sessionId))
       /\ last' = [op |-> "setActiveSessionId", sessionId |-> sessionId]
  /\ UNCHANGED <<now, calls, parser>>

\* orchestrator.on(event, listener)
Subscribe ==
  /\ RegistrationCount < MaxRegistrations
  /\ \E event \in LifecycleEvents, listener \in Listeners :
       /\ Leave(on(Entry, event, listener))
       /\ last' = [op |-> "on", event |-> event, listener |-> listener]
  /\ UNCHANGED <<now, calls, parser>>

\* orchestrator.off(event, listener), also for events nothing is registered for
Unsubscribe ==
  /\ \E event \in LifecycleEvents \cup {"sessionCreated"}, listener \in Listeners :
       /\ Leave(off(Entry, event, listener))
       /\ last' = [op |-> "off", event |-> event, listener |-> listener,
                   before |-> eventListeners]
  /\ UNCHANGED <<now, calls, parser>>

\* orchestrator.getCommandHistory(limit), and getCommandHistory()
GetCommandHistory ==
  /\ \E limit \in {Undef} \cup { Num(n) : n \in 0..MaxLimit } :
       /\ Leave(Entry)
       /\ last' = [op |-> "getCommandHistory", limit |-> limit,
                   result |-> getCommandHistory(Entry, limit)]
  /\ UNCHANGED <<now, calls, parser>>

NextLifecycle ==
  ExecuteLogged \/ ProcessLogged \/ Activate \/ Subscribe \/ Unsubscribe \/ GetCommandHistory

SpecLifecycle == InitLifecycle /\ [][NextLifecycle]_vars

----------------------------------------------------------------------------
(* The parser and the parser-to-command adapter on their own *)

\* new NLParser()
InitParser == parser = NLParser /\ Fresh

MaxParserCalls == 1   \* calls of a parser method per behaviour of SpecParser

\* await parser.parseInstruction(example), for an example of a definition
ParseInstruction ==
  /\ calls < MaxParserCalls
  /\ calls' = calls + 1
  /\ \E i \in DOMAIN getSupportedCommands :
       \E j \in DOMAIN getSupportedCommands[i].examples :
         LET Parsed(text) ==
               last' = [op |-> "parseInstruction", definition |-> i, text |-> text,
                        outcome |-> parseInstruction(text)]
         IN  Parsed(getSupportedCommands[i].examples[j])
  /\ UNCHANGED <<activeSessionId, commandHistory, eventListeners, now, backendCalls,
                 hookCalls, emitted, delivered, entered, parser>>

\* the command names given to validateInstruction: the catalog's, and names
\* the catalog does not have
UnknownNames == {"invalid-command", "", "TAP"}
ValidatedNames ==
  { getSupportedCommands[i].command : i \in DOMAIN getSupportedCommands } \cup UnknownNames

\* the parameter names a parse result for the command may carry: the required
\* ones of its definition, and one the definition does not know
ParameterNames(command) ==
  LET Required(definition) ==
        IF definition = Undef THEN {"x"}
        ELSE { definition.requiredParameters[p] : p \in DOMAIN definition.requiredParameters }
  IN  Required(FindCommand(getSupportedCommands, command, 1)) \cup {"extra"}

ParameterValues == {Str("com.example.app"), NullV, Undef}

\* await parser.validateInstruction(parseResult)
ValidateInstruction ==
  /\ calls < MaxParserCalls
  /\ calls' = calls + 1
  /\ \E command \in ValidatedNames :
       \E names \in SUBSET ParameterNames(command) :
         \E parameters \in [names -> ParameterValues] :
           LET Validated(parseResult) ==
                 last' = [op |-> "validateInstruction", parseResult |-> parseResult,
                          outcome |-> validateInstruction(parseResult)]
           IN  Validated([command |-> command, parameters |-> parameters,
                          confidence |-> 10, originalText |-> command])
  /\ UNCHANGED <<activeSessionId, commandHistory, eventListeners, now, backendCalls,
                 hookCalls, emitted, delivered, entered, parser>>

\* the parameter values given to normalizeParameters
NormalizedValues ==
  {Str("37.7749"), Str("-122.4194"), Str("100"), Str("true"), Str("FALSE"),
   Str("hello world"), Str("123abc"), Str(""), Str("  "), Str(" 12 "),
   Num(5), Bool(TRUE), NullV, Undef, Arr(<<Str("1")>>)}

NormalizedNames == {"latitude", "enabled"}

\* await parser.normalizeParameters(parseResult); the method writes to a copy
\* of the parameters, so the argument is after the call what it was before
NormalizeParameters ==
  /\ calls < MaxParserCalls
  /\ calls' = calls + 1
  /\ \E names \in SUBSET NormalizedNames :
       \E parameters \in [names -> NormalizedValues] :
         LET Normalized(parseResult) ==
               last' = [op |-> "normalizeParameters", parseResult |-> parseResult,
                        argument |-> parseResult,
                        outcome |-> normalizeParameters(parseResult)]
         IN  Normalized([command |-> "set-location", parameters |-> parameters,
                         confidence |-> 10, originalText |-> "set location"])
  /\ UNCHANGED <<activeSessionId, commandHistory, eventListeners, now, backendCalls,
                 hookCalls, emitted, delivered, entered, parser>>

\* the command names given to convertToCommand: the catalog's, keys of the
\* name-to-kind table, names that contain keys, and names that contain none
ConvertedNames ==
  { getSupportedCommands[i].command : i \in DOMAIN getSupportedCommands }
    \cup {"logs de app", "LOGS DE APP", "listar simuladores arrancados", "Tap",
          "get logs de app", "tocar y deslizar", "unknown", ""}

ConvertedParameters ==
  {NoGroups, [x |-> Str("100"), y |-> Str("200")], [bundleId |-> Str("com.example.app")]}

\* parserToOrchestrator.convertToCommand(parseResult)
ConvertToCommand ==
  /\ calls < MaxParserCalls
  /\ calls' = calls + 1
  /\ \E command \in ConvertedNames, parameters \in ConvertedParameters :
       LET Converted(parseResult) ==
             last' = [op |-> "convertToCommand", parseResult |-> parseResult,
                      outcome |-> convertToCommand(parseResult, "cmd1")]
       IN  Converted([command |-> command, parameters |-> parameters,
                      confidence |-> 10, originalText |-> command])
  /\ UNCHANGED <<activeSessionId, commandHistory, eventListeners, now, backendCalls,
                 hookCalls, emitted, delivered, entered, parser>>

NextParser ==
  ParseInstruction \/ ValidateInstruction \/ NormalizeParameters \/ ConvertToCommand

SpecParser == InitParser /\ [][NextParser]_vars

----------------------------------------------------------------------------
(* The command factory on its own *)

MaxCreated == 3   \* commands a behaviour of SpecFactory creates

\* the identifiers uuidv4() may return; it does not return one twice
Uuids == {"u1", "u2", "u3", "u4"}

\* new CommandFactoryImpl()
InitFactory == parser = NLParser /\ Fresh

\* the commands the factory has returned so far, in order
Made == IF "made" \in DOMAIN last THEN last.made ELSE <<>>

UnusedUuids == Uuids \ { Made[i].id : i \in DOMAIN Made }

\* factory.createCommand(type, parameters, description)
CreateCommand ==
  /\ Len(Made) < MaxCreated
  /\ \E type \in {TAP, LAUNCH_APP}, id \in UnusedUuids :
       last' = [op |-> "createCommand",
                made |-> Append(Made, createCommand(type, ParametersOf(type, Undef),
                                                    "a command", id))]
  /\ UNCHANGED <<activeSessionId, commandHistory, eventListeners, now, backendCalls,
                 hookCalls, emitted, delivered, entered, calls, parser>>

\* factory.createSequence(commands, stopOnError), and createSequence(commands)
CreateSequence ==
  /\ Len(Made) < MaxCreated
  /\ \E k \in 0..Len(Made), stopOnError \in {Bool(TRUE), Bool(FALSE), Undef},
        id \in UnusedUuids :
       last' = [op |-> "createSequence",
                made |-> Append(Made, createSequence(SubSeq(Made, 1, k), stopOnError, id))]
  /\ UNCHANGED <<activeSessionId, commandHistory, eventListeners, now, backendCalls,
                 hookCalls, emitted, delivered, entered, calls, parser>>

\* factory.createConditional(condition, ifTrue, ifFalse), and without ifFalse
CreateConditional ==
  /\ Len(Made) < MaxCreated
  /\ \E i \in DOMAIN Made, ifFalse \in {<<>>} \cup { <<Made[j]>> : j \in DOMAIN Made },
        id \in UnusedUuids :
       last' = [op |-> "createConditional",
                made |-> Append(Made, createConditional(Resolves(TRUE), Made[i], ifFalse, id))]
  /\ UNCHANGED <<activeSessionId, commandHistory, eventListeners, now, backendCalls,
                 hookCalls, emitted, delivered, entered, calls, parser>>

NextFactory == CreateCommand \/ CreateSequence \/ CreateConditional

SpecFactory == InitFactory /\ [][NextFactory]_vars

----------------------------------------------------------------------------
(* Sequences whose children are composites *)

MaxNested == 2   \* children of the outer sequence

\* the children of the outer sequence: atomic commands, a conditional with
\* both branches, and a sequence of two
NestedChildren ==
  { Plain("a", TAP, ParametersOf(TAP, Undef)),
    Atom("d", TAP, ParametersOf(TAP, Undef), Resolves(FALSE), Absent, Absent),
    Sequence("p", <<Plain("a", TAP, ParametersOf(TAP, Undef)),
                    Plain("b", CREATE_SIMULATOR_SESSION,
                          ParametersOf(CREATE_SIMULATOR_SESSION, Undef))>>, Bool(TRUE)) }
    \cup { Conditional("k", condition, Plain("a", TAP, ParametersOf(TAP, Undef)),
                       <<Plain("c", TERMINATE_SIMULATOR_SESSION,
                               ParametersOf(TERMINATE_SIMULATOR_SESSION, Undef))>>) :
             condition \in {Resolves(TRUE), Resolves(FALSE)} }

NestedCommands ==
  { Sequence("q", commands, stopOnError) :
      commands \in UNION { [1..n -> NestedChildren] : n \in 1..MaxNested },
      stopOnError \in {Bool(TRUE), Bool(FALSE)} }

\* new MCPOrchestrator(parser, idbManager)
InitNested == parser = NLParser /\ Fresh

\* await orchestrator.executeCommand(sequence), once per behaviour; the trace
\* tells when each executeCommand call began and settled
ExecuteNested ==
  /\ calls = 0
  /\ \E command \in NestedCommands :
       \E oracle \in Oracles(command) :
         LET Settled(o) ==
               /\ Leave(o.st)
               /\ last' = [op |-> "executeCommand", command |-> command, result |-> o.res,
                           rejected |-> o.thrown, before |-> Before, trace |-> o.st.trace]
         IN  Settled(executeCommand(command, Entry, [oracle |-> oracle, now |-> now]))
  /\ calls' = calls + 1
  /\ UNCHANGED <<now, parser>>

NextNested == ExecuteNested

SpecNested == InitNested /\ [][NextNested]_vars

----------------------------------------------------------------------------
(* Session commands that fail, by executeCommand and by processInstruction *)

MaxSessionCalls == 2

\* parsers whose instructions lead to a session creation or termination
SessionParse(command) ==
  [command |-> command, parameters |-> NoGroups, confidence |-> 10,
   originalText |-> StubInstruction]

SessionParsers ==
  {NLParser}
    \cup { StubParser(Resolves(SessionParse(command)),
                      Resolves([isValid |-> TRUE, errorMessage |-> Undef]),
                      Resolves(SessionParse(command))) :
             command \in {"crear sesión", "terminar sesión"} }

\* new MCPOrchestrator(parser, idbManager)
InitSessions == parser \in SessionParsers /\ Fresh

\* session creations and terminations, plain, rejected by their validation
\* hook, or with an error handler that reports a failure; and a tap
SessionCommands ==
  UNION { { Plain("c1", type, ParametersOf(type, Undef)),
            Atom("c2", type, ParametersOf(type, Undef), Resolves(FALSE), Absent, Absent),
            Atom("c4", type, ParametersOf(type, Undef), Absent, Absent,
                 Resolves(Failure("handled", 0))) } :
          type \in {CREATE_SIMULATOR_SESSION, TERMINATE_SIMULATOR_SESSION} }
    \cup {Plain("a", TAP, ParametersOf(TAP, Undef))}

SessionAnswers == {Resolves(Str("s2")), Throws("E1")}

SessionInstructions ==
  IF parser = NLParser
  THEN {"tap at 100, 200", "invalid command here", "terminate session"}
  ELSE {StubInstruction}

\* await orchestrator.executeCommand(command)
ExecuteSession ==
  /\ calls < MaxSessionCalls
  /\ \E command \in SessionCommands, answer \in SessionAnswers :
       LET Settled(o) ==
             /\ Leave(o.st)
             /\ last' = [op |-> "executeCommand", command |-> command, answer |-> answer,
                         result |-> o.res, rejected |-> o.thrown, before |-> Before,
                         observed |-> o.st.observed]
       IN  Settled(executeCommand(command, Entry, [oracle |-> <<answer>>, now |-> now]))
  /\ calls' = calls + 1
  /\ UNCHANGED <<now, parser>>

\* await orchestrator.processInstruction(instruction)
ProcessSession ==
  /\ calls < MaxSessionCalls
  /\ \E instruction \in SessionInstructions, answer \in SessionAnswers :
       LET Settled(o) ==
             /\ Leave(o.st)
             /\ last' = [op |-> "processInstruction", instruction |-> instruction,
                         answer |-> answer, result |-> o.res, rejected |-> o.thrown,
                         before |-> Before]
       IN  Settled(processInstruction(instruction, Entry,
                                      [oracle |-> <<answer>>, now |-> now, parser |-> parser,
                                       id |-> "cmd" \o ToString(calls + 1)]))
  /\ calls' = calls + 1
  /\ UNCHANGED <<now, parser>>

\* orchestrator.setActiveSessionId(sessionId)
ActivateSession ==
  /\ calls < MaxSessionCalls
  /\ \E sessionId \in {NullV, Str("s1")} :
       /\ Leave(setActiveSessionId(Entry, sessionId))
       /\ last' = [op |-> "setActiveSessionId", sessionId |-> sessionId]
  /\ UNCHANGED <<now, calls, parser>>

NextSessions == ExecuteSession \/ ProcessSession \/ ActivateSession

SpecSessions == InitSessions /\ [][NextSessions]_vars

----------------------------------------------------------------------------
(* Concurrent executeCommand calls: one step per stretch between two awaits *)

MaxProcs == 2
MaxSetterCalls == 1

Procs == 1..MaxProcs

\* the command of the p-th concurrent call: a session creation without hooks
\* or a tap with both hooks and no explicit session id
ConcurrentCommands(p) ==
  { Plain("b" \o ToString(p), CREATE_SIMULATOR_SESSION,
          ParametersOf(CREATE_SIMULATOR_SESSION, Undef)),
    Atom("h" \o ToString(p), TAP, ParametersOf(TAP, Undef), Resolves(TRUE),
         Resolves([x |-> Num(1), y |-> Num(2)]), Absent) }

\* what the backend answers to the call of the p-th command: each created
\* session has an identifier of its own
ConcurrentAnswers(p, command) ==
  IF command.type = CREATE_SIMULATOR_SESSION
  THEN {Resolves(Str("s" \o ToString(p + 1))), Resolves(Str("")), Throws("E1")}
  ELSE {Resolves(Undef), Throws("E1")}

Idle == [pc |-> "idle"]

\* new MCPOrchestrator(parser, idbManager); no call has started
InitConcurrent ==
  /\ parser = NLParser
  /\ activeSessionId = NullV
  /\ commandHistory = <<>>
  /\ eventListeners = [e \in EventNames |-> <<>>]
  /\ now = 0
  /\ backendCalls = <<>>
  /\ hookCalls = <<>>
  /\ emitted = <<>>
  /\ delivered = <<>>
  /\ entered = <<>>
  /\ calls = 0
  /\ last = [op |-> "concurrent", procs |-> [p \in Procs |-> Idle], settled |-> <<>>]

\* the orchestrator as the running calls share it; the calls the backend and
\* the hooks received accumulate over the behaviour
Shared ==
  [Entry EXCEPT !.backendCalls = backendCalls, !.hookCalls = hookCalls,
                !.emitted = emitted, !.delivered = delivered, !.entered = entered]

\* a call is suspended at pc, or settled with a result
Suspended(proc, pc, st) == [proc |-> [proc EXCEPT !.pc = pc], st |-> st]
SettledWith(proc, result, st) ==
  [proc |-> [proc EXCEPT !.pc = "done", !.result = result], st |-> st]

\* line 191 and OrchestratorToIDB.executeCommand up to the await of the
\* capability: the adapter is given the active session id of this moment
DispatchStep(proc, command, st) ==
  LET Called(sessionId, call) ==
        Suspended([proc EXCEPT !.command = command, !.sid = sessionId], "backend",
                  [st EXCEPT !.backendCalls =
                     Append(@, [capability |-> call.capability, args |-> call.args,
                                command |-> command.id, answer |-> proc.answer])])
  IN  Called(Context(st), Dispatch(command, Context(st)))

\* lines 184-188 up to the await of the transformation hook
TransformStep(proc, st) ==
  IF proc.command.transformParameters.k = "absent" THEN DispatchStep(proc, proc.command, st)
  ELSE Suspended(proc, "transform",
                 [st EXCEPT !.hookCalls =
                    Append(@, [hook |-> "transformParameters", command |-> proc.command.id,
                               sessionId |-> Context(st), error |-> "",
                               outcome |-> proc.command.transformParameters])])

\* lines 160-173 up to the await of the validation hook
ValidateStep(proc, st) ==
  IF proc.command.validate.k = "absent" THEN TransformStep(proc, st)
  ELSE Suspended(proc, "validate",
                 [st EXCEPT !.hookCalls =
                    Append(@, [hook |-> "validate", command |-> proc.command.id,
                               sessionId |-> Context(st), error |-> "",
                               outcome |-> proc.command.validate])])

\* lines 174-188 after the validation hook settled
AfterValidate(proc, st, env) ==
  IF proc.command.validate.k = "throw"
  THEN SettledWith(proc, Failure(ErrMessage(proc.command.validate.msg), env.now), st)
  ELSE IF ~proc.command.validate.v
  THEN SettledWith(proc, Failure("Parameter validation failed", env.now), st)
  ELSE TransformStep(proc, st)

\* lines 185-191 after the transformation hook settled
AfterTransform(proc, st, env) ==
  IF proc.command.transformParameters.k = "throw"
  THEN SettledWith(proc, Failure(ErrMessage(proc.command.transformParameters.msg), env.now), st)
  ELSE DispatchStep(proc, [proc.command EXCEPT !.parameters = proc.command.transformParameters.v],
                    st)

\* the rest of the call after the capability settled: the adapter's envelope
\* or catch block, then lines 193-220 and the catch block of executeCommand
AfterBackend(proc, st, env) ==
  LET Finished(o) == SettledWith(proc, o.res, o.st)
      Updated(o) ==
        IF o.thrown THEN ExecuteCatch(o, env)
        ELSE SaveAndEmit(proc.command,
                         Return(o.res, SessionUpdate(proc.command, o.res, o.st)), env)
  IN  Finished(Updated(AdapterCatch(proc.command, proc.sid,
                 IF proc.answer.k = "throw" THEN Throw(proc.answer.msg, st)
                 ELSE Return(Success(ResultData(proc.command, proc.sid, proc.answer.v),
                                     env.now), st),
                 env)))

\* what a step of the p-th call leaves behind
Stepped(p, r) ==
  /\ Leave(r.st)
  /\ last' = [last EXCEPT !.procs[p] = r.proc,
                          !.settled = IF r.proc.pc = "done" THEN Append(@, p) ELSE @]
  /\ UNCHANGED <<now, calls, parser>>

\* orchestrator.executeCommand(command) is called: it runs to its first await
StartCall ==
  \E p \in Procs :
    /\ last.procs[p].pc = "idle"
    /\ \E command \in ConcurrentCommands(p) :
         \E answer \in ConcurrentAnswers(p, command) :
           Stepped(p, ValidateStep([pc |-> "idle", command |-> command, answer |-> answer,
                                    sid |-> Undef, result |-> Undef], Shared))

\* the validation hook of a suspended call settles
ResumeValidate ==
  \E p \in Procs :
    /\ last.procs[p].pc = "validate"
    /\ Stepped(p, AfterValidate(last.procs[p], Shared, [now |-> now]))

\* the transformation hook of a suspended call settles
ResumeTransform ==
  \E p \in Procs :
    /\ last.procs[p].pc = "transform"
    /\ Stepped(p, AfterTransform(last.procs[p], Shared, [now |-> now]))

\* the backend call of a suspended call settles
ResumeBackend ==
  \E p \in Procs :
    /\ last.procs[p].pc = "backend"
    /\ Stepped(p, AfterBackend(last.procs[p], Shared, [now |-> now]))

\* orchestrator.setActiveSessionId(sessionId), between the steps of the calls
SetBetween ==
  /\ calls < MaxSetterCalls
  /\ \E sessionId \in {NullV, Str("s1")} : Leave(setActiveSessionId(Shared, sessionId))
  /\ calls' = calls + 1
  /\ UNCHANGED <<now, parser, last>>

NextConcurrent ==
  StartCall \/ ResumeValidate \/ ResumeTransform \/ ResumeBackend \/ SetBetween

SpecConcurrent == InitConcurrent /\ [][NextConcurrent]_vars

----------------------------------------------------------------------------
(* One executeCommand call on a command tree, one step per executeCommand
   frame: the stack holds the calls that are awaiting a child *)

\* trees three levels deep: a sequence whose conditional has sequences as branches
DeepCommands ==
  { Sequence("r",
             <<Conditional("k", condition,
                           Sequence("p", <<Plain("a", TAP, ParametersOf(TAP, Undef)),
                                           Plain("b", CREATE_SIMULATOR_SESSION,
                                                 ParametersOf(CREATE_SIMULATOR_SESSION, Undef))>>,
                                    Bool(TRUE)),
                           <<Sequence("q", <<Plain("a", TAP, ParametersOf(TAP, Undef))>>,
                                      Bool(FALSE))>>),
               Plain("a", TAP, ParametersOf(TAP, Undef))>>, stopOnError) :
      condition \in {Resolves(TRUE), Resolves(FALSE), Throws("E5")},
      stopOnError \in {Bool(TRUE), Bool(FALSE)} }

TreeCommands == NestedCommands \cup DeepCommands

\* the backend's answers to the calls of one tree
TreeOracles(command) == [1..Leaves(command) -> {Resolves(Str("s2")), Throws("E1")}]

\* new MCPOrchestrator(parser, idbManager)
InitTree == parser = NLParser /\ Fresh

\* executeCommand(command) is called for the node at `path` of the tree
Frame(command, path) ==
  [command |-> command, path |-> path, started |-> FALSE, i |-> 1, results |-> <<>>]

NoResult == [k |-> "none"]

Top(m) == m.stack[Len(m.stack)]
Pop(m) == SubSeq(m.stack, 1, Len(m.stack) - 1)

\* the call on top of the stack calls executeCommand on a child (lines 247,
\* 311, 313) and awaits it
Call(m, frame, child, path, st) ==
  [m |-> [m EXCEPT !.stack = Append(Pop(m), frame) \o <<Frame(child, path)>>,
                   !.visits = Append(@, path),
                   !.returned = NoResult],
   st |-> st]

\* the call on top of the stack reaches lines 207-220 with `result` and
\* resolves to it
Finish(m, result, st, env) ==
  [m |-> [m EXCEPT !.stack = Pop(m), !.returned = [k |-> "value", v |-> result]],
   st |-> SaveAndEmit(Top(m).command, Return(result, st), env).st]

\* the loop of executeSequenceCommand at the top of an iteration (lines 246-247)
SequenceNext(m, frame, st, env) ==
  LET commands == frame.command.parameters.commands
  IN  IF frame.i > Len(commands)
      THEN Finish(m, Success(Obj([results |-> frame.results,
                                  completedCommands |-> Len(commands),
                                  totalCommands |-> Len(commands)]), env.now), st, env)
      ELSE Call(m, frame, commands[frame.i], Append(frame.path, frame.i), st)

SequenceResumed_SameChild(m, frame, result, st, env) ==
  LET commands == frame.command.parameters.commands
      results1 == Append(frame.results, result)
  IN  IF StopsAt(frame.command, result)
      THEN Finish(m, FailureWith(Obj([results |-> results1,
                                      completedCommands |-> IndexOf(commands, commands[frame.i]),
                                      totalCommands |-> Len(commands)]),
                                 "Error in command " \o commands[frame.i].id \o ": "
                                   \o ErrorText(result.error), env.now), st, env)
      ELSE [m |-> [m EXCEPT !.stack = Append(Pop(m), [frame EXCEPT !.results = results1]),
                            !.returned = NoResult],
            st |-> st]

\* the loop of executeSequenceCommand after the awaited child resolved
\* (lines 248-266)
SequenceResumed(m, frame, result, st, env) ==
  LET commands == frame.command.parameters.commands
      results1 == Append(frame.results, result)
  IN  IF StopsAt(frame.command, result)
      THEN Finish(m, FailureWith(Obj([results |-> results1,
                                      completedCommands |-> IndexOf(commands, commands[frame.i]),
                                      totalCommands |-> Len(commands)]),
                                 "Error in command " \o commands[frame.i].id \o ": "
                                   \o ErrorText(result.error), env.now), st, env)
      ELSE [m |-> [m EXCEPT !.stack = Append(Pop(m), [frame EXCEPT !.i = @ + 1,
                                                                   !.results = results1]),
                            !.returned = NoResult],
            st |-> st]

\* executeConditionalCommand up to the call of the branch (lines 298-325)
ConditionEvaluated(m, frame, st, env) ==
  LET p == frame.command.parameters
      Evaluated(st1) ==
        IF p.condition.k = "throw"
        THEN Finish(m, Failure(ErrMessage(p.condition.msg), env.now), st1, env)
        ELSE IF p.condition.v THEN Call(m, frame, p.ifTrue, Append(frame.path, 1), st1)
        ELSE IF p.ifFalse # <<>> THEN Call(m, frame, p.ifFalse[1], Append(frame.path, 2), st1)
        ELSE Finish(m, Success(Obj([conditionResult |-> p.condition.v, executed |-> FALSE]),
                               env.now), st1, env)
  IN  Evaluated([st EXCEPT !.hookCalls =
                   Append(@, [hook |-> "condition", command |-> frame.command.id,
                              sessionId |-> Context(st), previousResults |-> <<>>,
                              error |-> "", outcome |-> p.condition])])

\* executeCommand on an atomic command (lines 159-229): the try block, the
\* history step when nothing was thrown or returned early, the catch block
AtomicSettled(command, st, env) ==
  CHOOSE o \in
    { [ExecuteCatch(o2, env) EXCEPT !.early = FALSE] :
        o2 \in { IF o1.thrown \/ o1.early THEN o1 ELSE SaveAndEmit(command, o1, env) :
                   o1 \in {ExecuteAtomic(command,
                                         [st EXCEPT !.entered = Append(@, command.id)],
                                         env)} } } : TRUE

\* an atomic command runs from its hooks to its history entry
LeafExecuted(m, frame, o) ==
  [m |-> [m EXCEPT !.stack = Pop(m),
                   !.returned = [k |-> "value", v |-> o.res],
                   !.leafCalls = Append(@, [path |-> frame.path,
                                            calls |-> Len(o.st.backendCalls)
                                                        - Len(m.callsBefore)])],
   st |-> o.st]

\* the next step of the call on top of the stack
TreeStep(m, frame, st, env) ==
  IF m.returned.k = "value"
  THEN IF frame.command.type = SEQUENCE
       THEN SequenceResumed(m, frame, m.returned.v, st, env)
       ELSE Finish(m, m.returned.v, st, env)
  ELSE IF frame.command.type \notin {SEQUENCE, CONDITIONAL}
  THEN CHOOSE r \in { LeafExecuted([m EXCEPT !.callsBefore = st.backendCalls], frame, o) :
                         o \in {AtomicSettled(frame.command, st, env)} } : TRUE
  ELSE IF ~frame.started
  THEN [m |-> [m EXCEPT !.stack = Append(Pop(m), [frame EXCEPT !.started = TRUE])],
        st |-> [st EXCEPT !.entered = Append(@, frame.command.id)]]
  ELSE IF frame.command.type = SEQUENCE THEN SequenceNext(m, frame, st, env)
  ELSE ConditionEvaluated(m, frame, st, env)

\* orchestrator.executeCommand(command) is called
StartTree ==
  /\ calls = 0
  /\ \E command \in TreeCommands :
       \E oracle \in TreeOracles(command) :
         last' = [op |-> "tree", command |-> command, oracle |-> oracle,
                  stack |-> <<Frame(command, <<>>)>>, returned |-> NoResult,
                  visits |-> <<>>, leafCalls |-> <<>>, callsBefore |-> <<>>]
  /\ calls' = 1
  /\ UNCHANGED <<activeSessionId, commandHistory, eventListeners, now, backendCalls,
                 hookCalls, emitted, delivered, entered, parser>>

\* the innermost pending executeCommand call goes on to its next await or
\* resolves
StepTree ==
  /\ last.op = "tree"
  /\ last.stack # <<>>
  /\ \E r \in {TreeStep(last, Top(last), Shared, [oracle |-> last.oracle, now |-> now])} :
       Leave(r.st) /\ last' = r.m
  /\ UNCHANGED <<now, calls, parser>>

NextTree == StartTree \/ StepTree

\* hooks and backend calls all return, so a pending call always goes on
SpecTree == InitTree /\ [][NextTree]_vars /\ WF_vars(StepTree)

----------------------------------------------------------------------------
(* Properties *)

IsExecute == last.op = "executeCommand"
IsAtomic(command) == command.type \notin {SEQUENCE, CONDITIONAL}

\* the generic failure envelope for a thrown Error with message m
ThrowEnvelope(m) == Failure(IF m = "" THEN "Unknown error" ELSE m, now)

\* the history entries and events the last call added
NewHistory == SubSeq(commandHistory, last.before.historyLen + 1, Len(commandHistory))
EmittedOf(event) == SelectSeq(emitted, LAMBDA e : e.event = event)
DeliveredOf(event) == SelectSeq(delivered, LAMBDA d : d.event = event)

\* the messages of the errors thrown by hooks, handlers and the backend in the last call
ThrownMessages ==
  { hookCalls[i].outcome.msg : i \in { j \in DOMAIN hookCalls : hookCalls[j].outcome.k = "throw" } }
    \cup { backendCalls[i].answer.msg :
             i \in { j \in DOMAIN backendCalls : backendCalls[j].answer.k = "throw" } }

EnteredIds == { entered[i] : i \in DOMAIN entered }

\* the position of the first failed result of a list, 0 when there is none
RECURSIVE FirstFailureFrom(_, _)
FirstFailureFrom(results, i) ==
  IF i > Len(results) THEN 0
  ELSE IF ~results[i].success THEN i
  ELSE FirstFailureFrom(results, i + 1)

FirstFailure(results) == FirstFailureFrom(results, 1)

Ids(commands) == [i \in DOMAIN commands |-> commands[i].id]

\* C1 as claimed: whenever a hook, an error handler or a backend call threw
\* during executeCommand, the call resolves (never rejects) to success = false
\* with an error that carries the thrown message.
C1_ThrowAlwaysFails ==
  (IsExecute /\ ThrownMessages # {}) =>
     /\ ~last.rejected
     /\ ~last.result.success
     /\ \E m \in ThrownMessages :
          \/ last.result.error = m
          \/ \E id \in EnteredIds : last.result.error = "Error in command " \o id \o ": " \o m

\* C1 amended, atomic commands: a throw of the validate hook, of the transform
\* hook, of the backend without an error handler, or of the error handler
\* gives the generic failure envelope with the message ('Unknown error' for
\* an empty one); a backend throw with a resolving handler gives the
\* handler's envelope.
C1_Atomic(c, r) ==
  /\ c.validate.k = "throw" => r = ThrowEnvelope(c.validate.msg)
  /\ (c.validate.k = "absent" \/ (c.validate.k = "resolve" /\ c.validate.v))
       /\ c.transformParameters.k = "throw"
       => r = ThrowEnvelope(c.transformParameters.msg)
  /\ (backendCalls # <<>> /\ backendCalls[1].answer.k = "throw") =>
       CASE c.onError.k = "absent" -> r = ThrowEnvelope(backendCalls[1].answer.msg)
         [] c.onError.k = "resolve" -> r = c.onError.v
         [] c.onError.k = "throw" -> r = ThrowEnvelope(c.onError.msg)

\* C1 amended, sequences: a child whose hook throws gets the generic failure
\* envelope as its result; the sequence fails, naming the child, only when
\* stopOnError is set, and reports success otherwise.
C1_Sequence(c, r) ==
  LET commands == c.parameters.commands
      results == r.data.o.results
  IN  \A i \in DOMAIN results :
        commands[i].validate.k = "throw" =>
          /\ results[i] = ThrowEnvelope(commands[i].validate.msg)
          /\ IF Falsy(c.parameters.stopOnError) THEN r.success
             ELSE /\ ~r.success
                  /\ FirstFailure(results) = i =>
                       r.error = "Error in command " \o commands[i].id \o ": "
                                   \o ThrowEnvelope(commands[i].validate.msg).error

\* C1 amended: executeCommand never rejects, and what is thrown becomes a
\* result as C1_Atomic and C1_Sequence say; a conditional whose condition hook
\* throws returns the generic failure envelope.
C1_ThrownBecomesResult ==
  IsExecute =>
    /\ ~last.rejected
    /\ IsAtomic(last.command) => C1_Atomic(last.command, last.result)
    /\ last.command.type = SEQUENCE => C1_Sequence(last.command, last.result)
    /\ (last.command.type = CONDITIONAL /\ last.command.parameters.condition.k = "throw")
         => last.result = ThrowEnvelope(last.command.parameters.condition.msg)

\* a validate hook threw E2 and the caller got the failure envelope carrying E2
C1_Witness ==
  /\ IsExecute
  /\ IsAtomic(last.command)
  /\ last.command.validate = Throws("E2")
  /\ last.result = Failure("E2", now)
  /\ ~last.rejected

\* C2 as claimed: every executeCommand call appends exactly one history entry
\* {command, result, timestamp} for its command, as the last entry, and emits
\* exactly one commandExecuted event {command, result} for it, as the last event.
C2_OneEntryAndEventPerCall ==
  IsExecute =>
    LET id == last.command.id
        events == EmittedOf("commandExecuted")
    IN  /\ Cardinality({ i \in DOMAIN NewHistory : NewHistory[i].command = id }) = 1
        /\ NewHistory[Len(NewHistory)] =
             [command |-> id, result |-> last.result, timestamp |-> now]
        /\ Cardinality({ i \in DOMAIN events : events[i].data.command = id }) = 1
        /\ events[Len(events)].data = [command |-> id, result |-> last.result]

\* C3 as claimed: a sequence with stopOnError set stops at its first failing
\* child, the k-th: k children were entered, data.results has k results,
\* completedCommands = k, totalCommands is the number of children and the
\* error names the failing child and its error.
C3_StopOnErrorReport ==
  (IsExecute /\ last.command.type = SEQUENCE
     /\ ~Falsy(last.command.parameters.stopOnError)
     /\ FirstFailure(last.result.data.o.results) # 0) =>
    LET commands == last.command.parameters.commands
        data == last.result.data.o
        k == FirstFailure(data.results)
    IN  /\ Len(data.results) = k
        /\ entered = <<last.command.id>> \o SubSeq(Ids(commands), 1, k)
        /\ ~last.result.success
        /\ data.completedCommands = k
        /\ data.totalCommands = Len(commands)
        /\ last.result.error = "Error in command " \o commands[k].id \o ": "
                                 \o ErrorText(data.results[k].error)

\* C4: a sequence whose stopOnError is false (or missing) enters every child
\* in list order whatever fails, and returns success = true with
\* completedCommands = totalCommands = the number of children and one result
\* per child in list order.
C4_ContinueOnError ==
  (IsExecute /\ last.command.type = SEQUENCE /\ Falsy(last.command.parameters.stopOnError)) =>
    LET commands == last.command.parameters.commands
        data == last.result.data.o
    IN  /\ last.result.success
        /\ data.completedCommands = Len(commands)
        /\ data.totalCommands = Len(commands)
        /\ Len(data.results) = Len(commands)
        /\ entered = <<last.command.id>> \o Ids(commands)
        /\ \A i \in DOMAIN commands :
             /\ commands[i].validate = Resolves(FALSE)
                  => data.results[i] = Failure("Parameter validation failed", now)
             /\ commands[i].validate.k = "throw"
                  => data.results[i] = ThrowEnvelope(commands[i].validate.msg)

\* a sequence without stopOnError whose first child failed and whose second ran
C4_Witness ==
  /\ IsExecute
  /\ last.command.type = SEQUENCE
  /\ last.command.parameters.stopOnError = Bool(FALSE)
  /\ Len(last.command.parameters.commands) = 2
  /\ ~last.result.data.o.results[1].success
  /\ last.result.data.o.results[2].success
  /\ last.result.success

\* the last call was an atomic command of this kind that called the backend
\* once and got an answer (no throw)
BackendSucceeded(type) ==
  /\ IsExecute
  /\ last.command.type = type
  /\ Len(backendCalls) = 1
  /\ backendCalls[1].answer.k = "resolve"

\* the listener invocations an emission of `event` with `data` makes: one per
\* registration, in registration order
OncePerRegistration(event, data) ==
  [i \in DOMAIN eventListeners[event] |->
     [listener |-> eventListeners[event][i], event |-> event, data |-> data]]

C6_SessionTerminated ==
  (IsExecute /\ last.command.type = TERMINATE_SIMULATOR_SESSION) =>
    IF last.result.success
    THEN /\ activeSessionId = NullV
         /\ EmittedOf("sessionTerminated")
              = <<[event |-> "sessionTerminated",
                   data |-> [sessionId |-> last.before.activeSessionId]]>>
         /\ DeliveredOf("sessionTerminated")
              = OncePerRegistration("sessionTerminated",
                                    [sessionId |-> last.before.activeSessionId])
    ELSE EmittedOf("sessionTerminated") = <<>>

\* the active session s1 was terminated and a listener was told so
C6_Witness ==
  /\ BackendSucceeded(TERMINATE_SIMULATOR_SESSION)
  /\ last.before.activeSessionId = Str("s1")
  /\ last.result.success
  /\ activeSessionId = NullV
  /\ Len(DeliveredOf("sessionTerminated")) = 1

\* a ?? b
Coalesce(a, b) == IF a.t \in {"undefined", "null"} THEN b ELSE a

\* the parameters a command has when it is dispatched
DispatchedParameters(command) ==
  IF command.transformParameters.k = "resolve" THEN command.transformParameters.v
  ELSE command.parameters

\* the last call was an atomic command that reached a session-keyed capability
SessionKeyedCall ==
  /\ IsExecute
  /\ IsAtomic(last.command)
  /\ Len(backendCalls) = 1
  /\ backendCalls[1].capability \in SessionKeyed

\* C7 as claimed: the session id handed to the backend is
\* parameters.sessionId ?? activeSessionId ?? '', so that an explicit session
\* id, whatever its value, takes precedence over the active one.
C7_NullishPrecedence ==
  SessionKeyedCall =>
    backendCalls[1].args[1]
      = Coalesce(Coalesce(Get(DispatchedParameters(last.command), "sessionId"),
                          last.before.activeSessionId), Str(""))

\* C7 amended: the session id handed to the backend is
\* parameters.sessionId || activeSessionId || '': a non-empty explicit session
\* id takes precedence over the active one; a missing or empty explicit id
\* gives the active session id, and '' when there is no active session.
C7_EffectiveSession ==
  SessionKeyedCall =>
    LET explicit == Get(DispatchedParameters(last.command), "sessionId")
        active == last.before.activeSessionId
    IN  backendCalls[1].args[1]
          = IF explicit.t = "string" /\ explicit.s # "" THEN explicit
            ELSE IF active.t = "string" /\ active.s # "" THEN active
            ELSE Str("")

\* the explicit id s3 put in by the transform hook won over the active s1
C7_Witness ==
  /\ SessionKeyedCall
  /\ last.before.activeSessionId = Str("s1")
  /\ Get(DispatchedParameters(last.command), "sessionId") = Str("s3")
  /\ backendCalls[1].args[1] = Str("s3")

IsProcess == last.op = "processInstruction"

\* what the parser answers for the instruction of the last call
ParseOfLast == Parser_parseInstruction(parser, last.instruction)
ValidationOfLast == Parser_validateInstruction(parser, ParseOfLast.v)
NormalizedOfLast == Parser_normalizeParameters(parser, ParseOfLast.v)

\* the three ways an instruction can fail before a command exists
NoPatternMatches == ParseOfLast.k = "throw"
ReportedInvalid ==
  /\ ParseOfLast.k = "resolve"
  /\ ValidationOfLast.k = "resolve"
  /\ ~ValidationOfLast.v.isValid
NameUnmapped ==
  /\ ParseOfLast.k = "resolve"
  /\ ValidationOfLast.k = "resolve"
  /\ ValidationOfLast.v.isValid
  /\ NormalizedOfLast.k = "resolve"
  /\ mapToCommandType(NormalizedOfLast.v.command).k = "throw"

\* C8: processInstruction never throws; when no pattern matches the
\* instruction, when validation reports the parse result invalid, or when the
\* parsed name maps to no command kind, it returns success = false with the
\* error message of that failure and no backend capability is called.
C8_FailureBeforeBackend ==
  IsProcess =>
    /\ ~last.rejected
    /\ NoPatternMatches =>
         /\ last.result = Failure(IF ParseOfLast.msg = "" THEN "Unknown error"
                                  ELSE ParseOfLast.msg, now)
         /\ backendCalls = <<>>
    /\ ReportedInvalid =>
         /\ last.result = Failure(IF ValidationOfLast.v.errorMessage = Undef
                                  THEN "Invalid instruction"
                                  ELSE ValidationOfLast.v.errorMessage.s, now)
         /\ backendCalls = <<>>
    /\ NameUnmapped =>
         /\ last.result = Failure("Could not map command \"" \o NormalizedOfLast.v.command
                                    \o "\" to a CommandType", now)
         /\ backendCalls = <<>>

\* the pattern-matching parser understood nothing and the caller got a failure
C8_Witness ==
  /\ IsProcess
  /\ parser = NLParser
  /\ last.instruction = "invalid command here"
  /\ last.result = Failure("Could not understand the instruction: invalid command here", now)
  /\ backendCalls = <<>>
  /\ ~last.rejected

\* C9 as claimed: with the NLParser, processInstruction('create session')
\* against a backend whose session creation succeeds returns success with the
\* new session id as data and makes it the active session, and a following
\* processInstruction('tap at 100, 200') is dispatched to that session.
C9_CreateSessionThenTap ==
  /\ (IsProcess /\ parser = NLParser /\ last.instruction = "create session"
        /\ last.answer = Resolves(Str("s2"))) =>
       /\ last.result = Success(Str("s2"), now)
       /\ activeSessionId = Str("s2")
  /\ (IsProcess /\ parser = NLParser /\ last.instruction = "tap at 100, 200"
        /\ last.before.activeSessionId = Str("s2")) =>
       /\ Len(backendCalls) = 1
       /\ backendCalls[1].capability = "tap"
       /\ backendCalls[1].args = <<Str("s2"), Num(100), Num(200)>>

\* C10 as claimed: "tap en 100, 200" parses to the command tap with
\* parameters {x: 100, y: 200}, maps to the tap kind, and leads to exactly one
\* tap(x = 100, y = 200) call of the backend and a success envelope.
C10_TapEn ==
  (IsProcess /\ parser = NLParser /\ last.instruction = "tap en 100, 200"
     /\ last.answer.k = "resolve") =>
    /\ ParseOfLast.k = "resolve"
    /\ ParseOfLast.v.command = "tap"
    /\ ParseOfLast.v.parameters = [x |-> Num(100), y |-> Num(200)]
    /\ mapToCommandType(ParseOfLast.v.command) = Resolves(TAP)
    /\ Len(backendCalls) = 1
    /\ backendCalls[1].capability = "tap"
    /\ SubSeq(backendCalls[1].args, 2, 3) = <<Num(100), Num(200)>>
    /\ last.result.success

\* C11: a conditional command whose predicate resolves false and which has no
\* false-branch returns {success: true, data: {conditionResult: false,
\* executed: false}}; neither branch is entered, no backend capability is
\* called and the active session id is unchanged.
C11_FalseWithoutBranch ==
  (IsExecute /\ last.command.type = CONDITIONAL
     /\ last.command.parameters.condition = Resolves(FALSE)
     /\ last.command.parameters.ifFalse = <<>>) =>
    /\ ~last.rejected
    /\ last.result = Success(Obj([conditionResult |-> FALSE, executed |-> FALSE]), now)
    /\ backendCalls = <<>>
    /\ entered = <<last.command.id>>
    /\ activeSessionId = last.before.activeSessionId

\* a false predicate without false-branch, on an orchestrator with an active session
C11_Witness ==
  /\ IsExecute
  /\ last.command.type = CONDITIONAL
  /\ last.command.parameters.condition = Resolves(FALSE)
  /\ last.command.parameters.ifFalse = <<>>
  /\ last.before.activeSessionId = Str("s1")
  /\ last.result.success
  /\ last.result.data.o.executed = FALSE
  /\ hookCalls # <<>>

\* the command ids of a list of history entries
HistoryIds(entries) == [i \in DOMAIN entries |-> entries[i].command]

\* C12 as claimed: a sequence of N atomic children on each of which
\* executeCommand ran grows the history by exactly N + 1 entries, one per
\* child in list order, then one for the sequence itself.
C12_SequenceHistory ==
  (IsExecute /\ last.command.type = SEQUENCE
     /\ entered = <<last.command.id>> \o Ids(last.command.parameters.commands)) =>
    /\ Len(NewHistory) = Len(last.command.parameters.commands) + 1
    /\ HistoryIds(NewHistory) = Ids(last.command.parameters.commands) \o <<last.command.id>>

IsComposite(command) == command.type \in {SEQUENCE, CONDITIONAL}

ChildrenRun ==
  LET p == last.command.parameters
  IN  IF last.command.type = SEQUENCE THEN SubSeq(p.commands, 1, Len(entered) - 1)
      ELSE IF Len(entered) = 1 THEN <<>>
      ELSE IF p.condition.v THEN <<p.ifTrue>> ELSE p.ifFalse

\* the nested call of this child left executeCommand before the history step:
\* its validate hook resolved false, or one of its hooks threw
LeftEarly(child) ==
  \/ child.validate.k = "throw"
  \/ child.validate = Resolves(FALSE)
  \/ child.transformParameters.k = "throw"
  \/ /\ child.onError.k = "throw"
     /\ \E i \in DOMAIN hookCalls :
          hookCalls[i].hook = "onError" /\ hookCalls[i].command = child.id

\* the positions in ChildrenRun of the children that reached the history step
SavedChildren ==
  SelectSeq([i \in DOMAIN ChildrenRun |-> i], LAMBDA i : ~LeftEarly(ChildrenRun[i]))

IsGetHistory == last.op = "getCommandHistory"

\* the last n entries of the stored history, all of them when there are fewer
LastEntries(n) ==
  LET k == IF n < Len(commandHistory) THEN n ELSE Len(commandHistory)
  IN  [i \in 1..k |-> commandHistory[Len(commandHistory) - k + i]]

\* C14 as claimed: for every n >= 0, getCommandHistory(n) returns a new list
\* holding exactly the last n entries of the history (all when fewer exist) in
\* execution order, and getCommandHistory() a new list holding the whole
\* history; the returned list is never the stored buffer.
C14_LastN ==
  IsGetHistory =>
    /\ ~last.result.stored
    /\ last.limit = Undef => last.result.entries = commandHistory
    /\ last.limit # Undef => last.result.entries = LastEntries(last.limit.n)

\* C15: over any sequence of executeCommand, processInstruction,
\* setActiveSessionId, on, off and getCommandHistory calls the history is
\* append-only and time-ordered: every step leaves the existing entries at
\* their indices, never shortens the list, and the timestamps of the list
\* are non-decreasing.
TimeOrdered(entries) ==
  \A i \in 1..(Len(entries) - 1) : entries[i].timestamp <= entries[i + 1].timestamp

C15_AppendOnly ==
  [][/\ Len(commandHistory') >= Len(commandHistory)
     /\ SubSeq(commandHistory', 1, Len(commandHistory)) = commandHistory
     /\ TimeOrdered(commandHistory')]_vars

C15_Witness ==
  /\ Len(commandHistory) = MaxHistory
  /\ commandHistory[1].timestamp < commandHistory[MaxHistory].timestamp
  /\ commandHistory[1].command # commandHistory[MaxHistory].command
  /\ last.op = "getCommandHistory"

\* C16: every emitted event invokes the listeners registered for it, all of
\* them and in registration order, also after one of them threw; and the
\* operation that triggered the event ends as it does on an orchestrator
\* without listeners: same result, same session, same history.
RECURSIVE ExpectedDeliveries(_)
ExpectedDeliveries(i) ==
  IF i > Len(emitted) THEN <<>>
  ELSE [j \in 1..Len(eventListeners[emitted[i].event]) |->
          [listener |-> eventListeners[emitted[i].event][j],
           event |-> emitted[i].event, data |-> emitted[i].data]]
         \o ExpectedDeliveries(i + 1)

\* the orchestrator as the last call found it, with no listener registered
QuietEntry ==
  [Entry EXCEPT !.activeSessionId = last.before.activeSessionId,
                !.commandHistory = SubSeq(commandHistory, 1, last.before.historyLen),
                !.eventListeners = [e \in EventNames |-> <<>>]]

SameOutcome(o) ==
  /\ last.result = o.res
  /\ last.rejected = o.thrown
  /\ activeSessionId = o.st.activeSessionId
  /\ commandHistory = o.st.commandHistory
  /\ emitted = o.st.emitted

C16_ListenersInOrder ==
  /\ delivered = ExpectedDeliveries(1)
  /\ last.op = "executeCommand" =>
       SameOutcome(executeCommand(last.command, QuietEntry,
                                  [oracle |-> <<last.answer>>, now |-> now]))
  /\ last.op = "processInstruction" =>
       SameOutcome(processInstruction(last.instruction, QuietEntry,
                                      [oracle |-> <<last.answer>>, now |-> now,
                                       parser |-> parser,
                                       id |-> "cmd" \o ToString(last.before.historyLen + 1)]))
  /\ last.op = "setActiveSessionId" => activeSessionId = last.sessionId

\* a throwing listener registered before another one, and an event for both
C16_Witness ==
  /\ eventListeners["commandExecuted"] = <<"l2", "l1">>
  /\ "l2" \in ThrowingListeners
  /\ last.op = "executeCommand"
  /\ last.result.success
  /\ Len(emitted) = 1
  /\ Len(delivered) = 2
  /\ delivered[2].listener = "l1"

IsSetSession == last.op = "setActiveSessionId"

\* C17 as claimed: for every value s, setActiveSessionId(s) makes
\* getActiveSessionId() return s and emits exactly one event, sessionActivated
\* with payload {sessionId: s} when s is not null and sessionDeactivated when
\* s is null.
C17_EveryValue ==
  IsSetSession =>
    /\ activeSessionId = last.sessionId
    /\ Len(emitted) = 1
    /\ last.sessionId # NullV =>
         emitted[1] = [event |-> "sessionActivated", data |-> [sessionId |-> last.sessionId]]
    /\ last.sessionId = NullV => emitted[1].event = "sessionDeactivated"

\* C17 amended: setActiveSessionId(s) makes getActiveSessionId() return s and
\* emits exactly one event: sessionActivated with payload {sessionId: s} when
\* s is a non-empty string, sessionDeactivated with an empty payload when s
\* is null or the empty string.
C17_TruthyActivates ==
  IsSetSession =>
    /\ activeSessionId = last.sessionId
    /\ Len(emitted) = 1
    /\ (last.sessionId.t = "string" /\ last.sessionId.s # "") =>
         emitted[1] = [event |-> "sessionActivated", data |-> [sessionId |-> last.sessionId]]
    /\ (last.sessionId = NullV \/ last.sessionId = Str("")) =>
         emitted[1] = [event |-> "sessionDeactivated", data |-> [none |-> TRUE]]

\* the empty string has been made the active session id
C17_Witness ==
  /\ IsSetSession
  /\ last.sessionId = Str("")
  /\ activeSessionId = Str("")
  /\ Len(emitted) = 1
  /\ emitted[1].event = "sessionDeactivated"

IsOff == last.op = "off" /\ "before" \in DOMAIN last

Registered(listeners, event, listener) ==
  \E i \in DOMAIN listeners[event] : listeners[event][i] = listener

\* C18: off(event, listener) removes that listener from that event and
\* leaves the other listeners of the event, and the listeners of every other
\* event, registered in their original order; off for an event or a listener
\* that is not registered changes nothing; and an emission invokes exactly
\* the listeners registered at that time, in order, so a removed listener is
\* not invoked again.
C18_OffRemovesOnlyThat ==
  /\ IsOff =>
       /\ ~Registered(eventListeners, last.event, last.listener)
       /\ eventListeners[last.event]
            = SelectSeq(last.before[last.event], LAMBDA l : l # last.listener)
       /\ \A e \in EventNames \ {last.event} : eventListeners[e] = last.before[e]
       /\ ~Registered(last.before, last.event, last.listener) => eventListeners = last.before
  /\ \A i \in DOMAIN delivered :
       Registered(eventListeners, delivered[i].event, delivered[i].listener)
  /\ delivered = ExpectedDeliveries(1)

\* the first of two listeners of an event has been removed
C18_Witness ==
  /\ IsOff
  /\ last.event = "commandExecuted"
  /\ last.listener = "l2"
  /\ last.before["commandExecuted"] = <<"l2", "l1">>
  /\ eventListeners["commandExecuted"] = <<"l1">>

\* C19: for an atomic command whose validation hook resolves false,
\* executeCommand returns the failure 'Parameter validation failed', the
\* transform hook is not invoked, no backend capability is called and the
\* active session id is unchanged.
RejectedByValidate ==
  /\ IsExecute
  /\ IsAtomic(last.command)
  /\ last.command.validate = Resolves(FALSE)

C19_ValidationFalse ==
  RejectedByValidate =>
    /\ ~last.rejected
    /\ last.result = Failure("Parameter validation failed", now)
    /\ \A i \in DOMAIN hookCalls : hookCalls[i].hook = "validate"
    /\ Len(hookCalls) = 1
    /\ backendCalls = <<>>
    /\ activeSessionId = last.before.activeSessionId

\* a rejected command that also carries a transform hook
C19_Witness ==
  /\ RejectedByValidate
  /\ last.command.transformParameters # Absent
  /\ last.command.type = TERMINATE_SIMULATOR_SESSION
  /\ ~last.result.success
  /\ backendCalls = <<>>

\* the positions of the patterns of a definition that match the text
MatchingPatterns(definition, normalizedText) ==
  { j \in DOMAIN definition.patterns : StringMatch(normalizedText, definition.patterns[j]).ok }

\* the positions, in the registry's order (groups as registered, definitions
\* as declared), of the definitions with a pattern that matches the text
MatchingDefinitions(text) ==
  { i \in DOMAIN getSupportedCommands :
      MatchingPatterns(getSupportedCommands[i], ToLowerCase(Trim(text))) # {} }

Least(S) == CHOOSE i \in S : \A k \in S : i <= k

\* what the first matching pattern of a definition makes of the text
ResultOf(definition, text) ==
  LET FromPattern(j) ==
        [command |-> definition.command,
         parameters |-> ExtractFrom(definition.parameterExtractors, 1,
                                    StringMatch(ToLowerCase(Trim(text)),
                                                definition.patterns[j]).groups),
         confidence |-> Confidence, originalText |-> text]
  IN  FromPattern(Least(MatchingPatterns(definition, ToLowerCase(Trim(text)))))

\* C20: matching is first-match-wins over the registry's order: for a text
\* that patterns of one or more definitions match, parseInstruction returns
\* the result of the earliest of these definitions, made from the first of
\* its patterns that matches; for a text no pattern matches it throws an
\* error that carries the text.
C20_FirstMatchWins ==
  (IsProcess /\ parser = NLParser) =>
    LET Wins(matching) ==
          IF matching = {}
          THEN ParseOfLast = Throws("Could not understand the instruction: "
                                      \o last.instruction)
          ELSE ParseOfLast = Resolves(ResultOf(getSupportedCommands[Least(matching)],
                                               last.instruction))
    IN  Wins(MatchingDefinitions(last.instruction))

\* a text that two definitions match: 'create session' and, declared after
\* it, 'boot simulator'
C20_Witness ==
  /\ IsProcess
  /\ parser = NLParser
  /\ last.instruction = "start simulator 12"
  /\ Cardinality(MatchingDefinitions(last.instruction)) = 2
  /\ ParseOfLast.v.command = "create session"

IsParse == last.op = "parseInstruction"

\* C21 as claimed: for every definition of the catalog and every example
\* listed for it, parseInstruction(example) matches, returns that
\* definition's command name, and its parameters contain all of the
\* definition's required parameters.
C21_ExamplesParse ==
  IsParse =>
    /\ last.outcome.k = "resolve"
    /\ last.outcome.v.command = getSupportedCommands[last.definition].command
    /\ \A p \in DOMAIN getSupportedCommands[last.definition].requiredParameters :
         getSupportedCommands[last.definition].requiredParameters[p]
           \in DOMAIN last.outcome.v.parameters

IsValidate == last.op = "validateInstruction"

\* the command name is the name of a definition of the catalog
Known(command) ==
  \E i \in DOMAIN getSupportedCommands : getSupportedCommands[i].command = command

\* C22: validateInstruction on a parse result whose command name is not in
\* the catalog returns isValid = false with the message 'Unrecognized
\* command: <name>', whatever parameters the result carries.
C22_UnknownCommand ==
  (IsValidate /\ ~Known(last.parseResult.command)) =>
    last.outcome = [isValid |-> FALSE,
                    errorMessage |-> Str("Unrecognized command: "
                                           \o last.parseResult.command)]

\* an unknown name with parameters, one of them null
C22_Witness ==
  /\ IsValidate
  /\ last.parseResult.command = "invalid-command"
  /\ DOMAIN last.parseResult.parameters = {"x", "extra"}
  /\ last.parseResult.parameters["x"] = NullV
  /\ ~last.outcome.isValid

\* the required parameters of the command of the last call, and those of
\* them its parameter mapping lacks
RequiredOfLast ==
  LET Names(definition) ==
        { definition.requiredParameters[p] : p \in DOMAIN definition.requiredParameters }
  IN  Names(FindCommand(getSupportedCommands, last.parseResult.command, 1))

AbsentOfLast == RequiredOfLast \ DOMAIN last.parseResult.parameters

NullOrUndefinedOfLast ==
  { p \in DOMAIN last.parseResult.parameters :
      last.parseResult.parameters[p] \in {NullV, Undef} }

\* C23: for a known command that lacks required parameters,
\* validateInstruction returns isValid = false with missingParameters listing
\* exactly the required names absent from the parameter mapping, each once;
\* and it returns isValid = true exactly when the command is known, no
\* required parameter is absent and no present value is null or undefined.
C23_MissingParameters ==
  IsValidate =>
    /\ (Known(last.parseResult.command) /\ AbsentOfLast # {}) =>
         /\ ~last.outcome.isValid
         /\ "missingParameters" \in DOMAIN last.outcome
         /\ { last.outcome.missingParameters[i] : i \in DOMAIN last.outcome.missingParameters }
              = AbsentOfLast
         /\ Len(last.outcome.missingParameters) = Cardinality(AbsentOfLast)
    /\ last.outcome.isValid <=>
         /\ Known(last.parseResult.command)
         /\ AbsentOfLast = {}
         /\ NullOrUndefinedOfLast = {}

\* a swipe that has two of its four required parameters, one of them undefined
C23_Witness ==
  /\ IsValidate
  /\ last.parseResult.command = "swipe"
  /\ DOMAIN last.parseResult.parameters = {"startX", "endY"}
  /\ last.parseResult.parameters["startX"] = Undef
  /\ last.outcome.missingParameters = <<"startY", "endX">>

IsNormalize == last.op = "normalizeParameters"

IsNumeral(s) ==
  LET Unsigned(u) ==
        \E n \in 1..Len(u) :
          /\ \A i \in 1..n : CharAt(u, i) \in DigitChars
          /\ \/ n = Len(u)
             \/ /\ n + 1 < Len(u)
                /\ CharAt(u, n + 1) = "."
                /\ \A i \in (n + 2)..Len(u) : CharAt(u, i) \in DigitChars
  IN  /\ s # ""
      /\ Unsigned(IF CharAt(s, 1) \in {"-", "+"} THEN SubSeq(s, 2, Len(s)) ELSE s)

IsBooleanWord(s) == ToLowerCase(s) \in {"true", "false"}

\* C25 as claimed: normalizeParameters changes only string values that are
\* the text of a number or equal 'true' / 'false' in any letter case; every
\* other string (the empty string, blanks, '123abc') and every value that is
\* no string is passed through unchanged.
C25_OthersUnchanged ==
  IsNormalize =>
    \A key \in DOMAIN last.parseResult.parameters :
      LET Passed(value, result) ==
            /\ value.t # "string" => result = value
            /\ (value.t = "string" /\ ~IsNumeral(value.s) /\ ~IsBooleanWord(value.s))
                 => result = value
            /\ (value.t = "string" /\ IsNumeral(value.s)) => result = StringToNumber(value.s)
            /\ (value.t = "string" /\ IsBooleanWord(value.s))
                 => result = Bool(ToLowerCase(value.s) = "true")
      IN  Passed(last.parseResult.parameters[key], last.outcome.parameters[key])

IsConvert == last.op = "convertToCommand"

\* the positions of the table's keys equal to the name, and of those the
\* name contains
EqualKeys(lowerCommand) ==
  { i \in DOMAIN commandMappings : commandMappings[i].key = lowerCommand }
ContainedKeys(lowerCommand) ==
  { i \in DOMAIN commandMappings : Includes(lowerCommand, commandMappings[i].key) }

\* C26: convertToCommand resolves the kind in this order: the lowercased
\* name equal to a key gives that key's kind; otherwise the first key, in the
\* table's insertion order, that the name contains gives the kind; otherwise
\* an error naming the command is thrown and no command is made.
C26_MappingOrder ==
  IsConvert =>
    LET Mapped(name, equal, contained) ==
          IF equal # {}
          THEN /\ last.outcome.k = "resolve"
               /\ \A i \in equal : last.outcome.v.type = commandMappings[i].type
          ELSE IF contained # {}
          THEN /\ last.outcome.k = "resolve"
               /\ last.outcome.v.type = commandMappings[Least(contained)].type
          ELSE last.outcome
                 = Throws("Could not map command \"" \o name \o "\" to a CommandType")
    IN  Mapped(last.parseResult.command,
               EqualKeys(ToLowerCase(last.parseResult.command)),
               ContainedKeys(ToLowerCase(last.parseResult.command)))

\* a name that is no key and contains two keys, 'logs' and, after it in the
\* table, 'logs de app'
C26_Witness ==
  /\ IsConvert
  /\ last.parseResult.command = "get logs de app"
  /\ EqualKeys("get logs de app") = {}
  /\ Cardinality(ContainedKeys("get logs de app")) = 2
  /\ last.outcome.v.type = GET_SYSTEM_LOGS

\* C27 as claimed: every command the factory returns, from createCommand,
\* createSequence or createConditional, has an identifier no other command
\* it returned has, and carries the default timeout (30000 ms) and retries (1).
C27_FactoryDefaults ==
  /\ \A i, j \in DOMAIN Made : i # j => Made[i].id # Made[j].id
  /\ \A i \in DOMAIN Made :
       /\ "timeout" \in DOMAIN Made[i] /\ Made[i].timeout = DefaultTimeout
       /\ "retries" \in DOMAIN Made[i] /\ Made[i].retries = DefaultRetries

IsNestedRun == IsExecute /\ "trace" \in DOMAIN last /\ last.command.type = SEQUENCE

\* the number of executeCommand calls that have begun and not settled after
\* the first k events of the trace
OpenAt(trace, k) ==
  Cardinality({ i \in 1..k : trace[i].e = "enter" })
    - Cardinality({ i \in 1..k : trace[i].e = "exit" })

\* every call settles after the calls it made have settled
RECURSIVE Nests(_, _, _)
Nests(trace, i, open) ==
  IF i > Len(trace) THEN open = <<>>
  ELSE IF trace[i].e = "enter" THEN Nests(trace, i + 1, Append(open, trace[i].command))
  ELSE /\ open # <<>>
       /\ open[Len(open)] = trace[i].command
       /\ Nests(trace, i + 1, SubSeq(open, 1, Len(open) - 1))

\* where in the trace the children of the outer sequence begin, and settle
ChildEnters(trace) ==
  SelectSeq([i \in 1..Len(trace) |-> i],
            LAMBDA i : trace[i].e = "enter" /\ OpenAt(trace, i - 1) = 1)
ChildExits(trace) ==
  SelectSeq([i \in 1..Len(trace) |-> i],
            LAMBDA i : trace[i].e = "exit" /\ OpenAt(trace, i) = 1)

\* C28: within one sequence execution the children run one after another in
\* list order: child j+1 begins right after child j has settled, with no hook
\* or backend call of its own before that, also when child j is a composite
\* whose own children run in between.
C28_OneAfterAnother ==
  IsNestedRun =>
    LET InOrder(trace, commands, ran, enters, exits) ==
          /\ Nests(trace, 1, <<>>)
          /\ Len(enters) = ran
          /\ Len(exits) = ran
          /\ \A j \in 1..ran :
               /\ trace[enters[j]].command = commands[j].id
               /\ trace[exits[j]].command = commands[j].id
               /\ enters[j] < exits[j]
               /\ trace[enters[j]].hooks <= trace[exits[j]].hooks
               /\ trace[enters[j]].calls <= trace[exits[j]].calls
          /\ \A j \in 1..(ran - 1) :
               /\ enters[j + 1] = exits[j] + 1
               /\ trace[enters[j + 1]].hooks = trace[exits[j]].hooks
               /\ trace[enters[j + 1]].calls = trace[exits[j]].calls
    IN  InOrder(last.trace, last.command.parameters.commands,
                Len(last.result.data.o.results),
                ChildEnters(last.trace), ChildExits(last.trace))

\* an inner sequence and then a conditional: the conditional begins after
\* both children of the inner sequence have made their backend calls
C28_Witness ==
  /\ IsNestedRun
  /\ Ids(last.command.parameters.commands) = <<"p", "k">>
  /\ Len(last.result.data.o.results) = 2
  /\ Len(backendCalls) = 3
  /\ last.trace[ChildEnters(last.trace)[2]].calls = 2

\* the calls of the last conditional's predicate
ConditionCalls ==
  SelectSeq(hookCalls, LAMBDA h : h.hook = "condition" /\ h.command = last.command.id)

\* the branch the predicate's value selects, <<>> when there is none
ChosenBranch ==
  LET p == last.command.parameters
  IN  IF p.condition.k = "throw" THEN <<>>
      ELSE IF p.condition.v THEN <<p.ifTrue>>
      ELSE p.ifFalse

\* what executeCommand returns for the branch on its own, from the state the
\* conditional started in and with the answers the backend gave
BranchAlone(branch) ==
  executeCommand(branch,
                 [Entry EXCEPT !.activeSessionId = last.before.activeSessionId,
                               !.commandHistory = SubSeq(commandHistory, 1,
                                                         last.before.historyLen)],
                 [oracle |-> [i \in 1..2 |-> IF i <= Len(backendCalls)
                                             THEN backendCalls[i].answer
                                             ELSE Resolves(Str("s2"))],
                  now |-> now])

\* C29 as claimed: the context of a conditional's predicate carries the
\* session id that is active at that moment, whatever string it is (and no
\* session id when none is active).
C29_ActiveSessionId ==
  (IsExecute /\ last.command.type = CONDITIONAL) =>
    /\ Len(ConditionCalls) = 1
    /\ ConditionCalls[1].sessionId =
         IF last.before.activeSessionId = NullV THEN Undef
         ELSE last.before.activeSessionId

\* C29: a conditional command calls its predicate exactly once, with the
\* session id that was active when the conditional started (undefined when
\* none is active or when it is the empty string) and with no previous
\* results; when the predicate resolves, exactly
\* the branch its value selects is entered, never the other one, and the
\* conditional returns what executeCommand returns for that branch.
C29_OneBranch ==
  (IsExecute /\ last.command.type = CONDITIONAL) =>
    /\ Len(ConditionCalls) = 1
    /\ ConditionCalls[1].sessionId = Or(last.before.activeSessionId, Undef)
    /\ ConditionCalls[1].previousResults = <<>>
    /\ hookCalls[1] = ConditionCalls[1]
    /\ entered = <<last.command.id>> \o [i \in DOMAIN ChosenBranch |-> ChosenBranch[i].id]
    /\ ChosenBranch # <<>> =>
         /\ last.rejected = BranchAlone(ChosenBranch[1]).thrown
         /\ last.result = BranchAlone(ChosenBranch[1]).res

\* a false predicate with both branches present, on an orchestrator with an
\* active session: the false-branch ran and its backend call succeeded
C29_Witness ==
  /\ IsExecute
  /\ last.command.type = CONDITIONAL
  /\ last.command.parameters.condition = Resolves(FALSE)
  /\ last.command.parameters.ifFalse # <<>>
  /\ last.command.parameters.ifTrue.id # last.command.parameters.ifFalse[1].id
  /\ last.before.activeSessionId = Str("s1")
  /\ entered = <<last.command.id, last.command.parameters.ifFalse[1].id>>
  /\ Len(backendCalls) = 1
  /\ last.result.success

\* the validation hook of the last command is absent or resolves true
ValidationPasses ==
  \/ last.command.validate.k = "absent"
  \/ last.command.validate.k = "resolve" /\ last.command.validate.v

WithPolicy(command, retries, timeout) ==
  [f \in DOMAIN command \cup {"retries", "timeout"} |->
     IF f = "retries" THEN retries
     ELSE IF f = "timeout" THEN timeout
     ELSE command[f]]

RetryPolicies == {0, DefaultRetries, 3} \X {0, DefaultTimeout}

\* the backend calls of the last command when it carries the policy, from the
\* state the call started in and with the same backend answers
CallsUnderPolicy(policy) ==
  executeCommand(WithPolicy(last.command, policy[1], policy[2]),
                 [Entry EXCEPT !.activeSessionId = last.before.activeSessionId,
                               !.commandHistory = SubSeq(commandHistory, 1,
                                                         last.before.historyLen)],
                 [oracle |-> [i \in 1..1 |-> IF backendCalls # <<>>
                                             THEN backendCalls[1].answer
                                             ELSE Throws("E1")],
                  now |-> now]).st.backendCalls

HandlerCalls == SelectSeq(hookCalls, LAMBDA h : h.hook = "onError")

\* the last call was an atomic command whose one backend call threw
BackendThrew ==
  /\ IsExecute
  /\ IsAtomic(last.command)
  /\ Len(backendCalls) = 1
  /\ backendCalls[1].answer.k = "throw"

\* C31 as claimed: when the backend call of a command without error handler
\* throws an Error, the result carries that Error's message as its error.
C31_ErrorIsMessage ==
  (BackendThrew /\ last.command.onError.k = "absent") =>
    last.result = Failure(backendCalls[1].answer.msg, now)

\* C31: when the backend call of an atomic command throws, a command with an
\* error handler has it invoked once, with the error and the session id the
\* adapter was given, and returns the envelope the handler resolves to; a
\* command without handler returns {success: false, error: the message, or
\* 'Unknown error' when it is empty}.  No error handler is invoked when a
\* validation, transformation or condition hook throws.
C31_HandlerPrecedence ==
  /\ BackendThrew =>
       IF last.command.onError.k = "absent"
       THEN /\ HandlerCalls = <<>>
            /\ ~last.rejected
            /\ last.result = ThrowEnvelope(backendCalls[1].answer.msg)
       ELSE /\ Len(HandlerCalls) = 1
            /\ HandlerCalls[1].command = last.command.id
            /\ HandlerCalls[1].error = backendCalls[1].answer.msg
            /\ HandlerCalls[1].sessionId = Or(last.before.activeSessionId, Undef)
            /\ last.command.onError.k = "resolve" =>
                 ~last.rejected /\ last.result = last.command.onError.v
  /\ (IsExecute /\ IsAtomic(last.command)
        /\ (last.command.validate.k = "throw" \/ last.command.transformParameters.k = "throw")) =>
       HandlerCalls = <<>> /\ backendCalls = <<>>
  /\ (IsExecute /\ last.command.type = CONDITIONAL
        /\ last.command.parameters.condition.k = "throw") =>
       HandlerCalls = <<>>

\* the backend call of a command with a handler threw and the handler's
\* envelope came back
C31_Witness ==
  /\ BackendThrew
  /\ last.command.onError.k = "resolve"
  /\ last.result = last.command.onError.v
  /\ Len(HandlerCalls) = 1

\* a hook of a command with a handler threw
C31_HookThrew ==
  /\ IsExecute
  /\ "onError" \in DOMAIN last.command
  /\ last.command.onError.k = "resolve"
  /\ \/ IsAtomic(last.command) /\ last.command.validate.k = "throw"
     \/ IsAtomic(last.command) /\ last.command.transformParameters.k = "throw"
          /\ last.command.validate.k # "throw"
     \/ last.command.type = CONDITIONAL /\ last.command.parameters.condition.k = "throw"

\* the last call was an atomic command with a validation and a transformation hook
BothHooks ==
  /\ IsExecute
  /\ IsAtomic(last.command)
  /\ last.command.validate.k # "absent"
  /\ last.command.transformParameters.k # "absent"

\* the names of the hooks called, in call order
HookOrder == [i \in DOMAIN hookCalls |-> hookCalls[i].hook]

\* C32: for an atomic command with both hooks the validation hook is called
\* first; the transformation hook is called, after it, only when validation
\* passed; the backend is called only after a transformation that resolved,
\* and with the parameters the transformation returned, not the command's own.
C32_ValidateTransformDispatch ==
  BothHooks =>
    /\ hookCalls # <<>> /\ HookOrder[1] = "validate"
    /\ IF ValidationPasses
       THEN Len(hookCalls) >= 2 /\ HookOrder[2] = "transformParameters"
       ELSE HookOrder = <<"validate">> /\ backendCalls = <<>>
    /\ Len(SelectSeq(hookCalls, LAMBDA h : h.hook \in {"validate", "transformParameters"})) <= 2
    /\ last.command.transformParameters.k = "throw" => backendCalls = <<>>
    /\ backendCalls # <<>> =>
         LET returned == last.command.transformParameters.v
         IN  /\ ValidationPasses
             /\ backendCalls[1].args[1]
                  = Or(Or(Get(returned, "sessionId"), last.before.activeSessionId), Str(""))
             /\ last.command.type = TAP =>
                  backendCalls[1].args = <<backendCalls[1].args[1], Get(returned, "x"),
                                           Get(returned, "y")>>

\* both hooks ran and the backend got coordinates and a session id that only
\* the transformation's parameters hold
C32_Witness ==
  /\ BothHooks
  /\ HookOrder = <<"validate", "transformParameters">>
  /\ Len(backendCalls) = 1
  /\ last.command.type = TAP
  /\ backendCalls[1].args = <<Str("s3"), Num(1), Num(2)>>
  /\ Get(last.command.parameters, "x") = Num(100)
  /\ last.before.activeSessionId = Str("s1")

\* the active session id after the first n backend calls of the last command,
\* read off the calls and their answers: a session creation that returned
\* one of `created` sets it, a termination that returned clears it
RECURSIVE ActiveAfter(_, _)
ActiveAfter(n, created) ==
  IF n = 0 THEN last.before.activeSessionId
  ELSE LET call == backendCalls[n]
       IN  IF call.capability = "createSimulatorSession" /\ call.answer.k = "resolve"
                /\ call.answer.v \in created
           THEN call.answer.v
           ELSE IF call.capability = "terminateSimulatorSession" /\ call.answer.k = "resolve"
           THEN NullV
           ELSE ActiveAfter(n - 1, created)

\* the values the backend returned to the calls of the last command
ReturnedIds ==
  { backendCalls[j].answer.v :
      j \in {i \in DOMAIN backendCalls : backendCalls[i].answer.k = "resolve"} }

\* the last call was a sequence of atomic children without explicit session ids
IsPlainSequence ==
  /\ IsExecute
  /\ last.command.type = SEQUENCE
  /\ \A i \in DOMAIN last.command.parameters.commands :
       LET child == last.command.parameters.commands[i]
       IN  IsAtomic(child) /\ Get(child.parameters, "sessionId") = Undef

\* the session-keyed calls of the last command are dispatched to the session
\* that is active after the calls before them
DispatchedToActive(created) ==
  \A j \in DOMAIN backendCalls :
    backendCalls[j].capability \in SessionKeyed =>
      backendCalls[j].args[1] = Or(ActiveAfter(j - 1, created), Str(""))

\* C33 as claimed: every child that follows a successful session creation is
\* dispatched to the session that creation returned, whatever its identifier.
C33_AnyCreatedSession ==
  IsPlainSequence => DispatchedToActive(ReturnedIds)

\* C33: in a sequence each child is dispatched with the active session id as
\* it stands when the child starts: after a session creation that returned a
\* non-empty identifier it is that identifier, after a successful session
\* termination it is none (the backend is given ''), and a creation that
\* returned an empty identifier leaves the session of the children before it.
C33_SessionAtChildStart ==
  IsPlainSequence => DispatchedToActive({v \in ReturnedIds : ~Falsy(v)})

\* a sequence started with session s1: its first child created s2 and the
\* second child was dispatched to s2
C33_Witness ==
  /\ IsPlainSequence
  /\ last.before.activeSessionId = Str("s1")
  /\ Len(backendCalls) = 2
  /\ backendCalls[1].capability = "createSimulatorSession"
  /\ backendCalls[1].answer = Resolves(Str("s2"))
  /\ backendCalls[2].capability = "tap"
  /\ backendCalls[2].args[1] = Str("s2")

\* the last call was an atomic session termination whose backend call
\* succeeded for the session `terminated`
TerminatedSession(terminated) ==
  /\ IsExecute
  /\ IsAtomic(last.command)
  /\ Len(backendCalls) = 1
  /\ backendCalls[1].capability = "terminateSimulatorSession"
  /\ backendCalls[1].answer.k = "resolve"
  /\ backendCalls[1].args = <<terminated>>
  /\ last.result.success

\* C34: a successful session termination that names, through an explicit
\* sessionId parameter, a session other than the active one leaves the active
\* session id unchanged.
C34_OtherSessionKept ==
  \A terminated \in {Str("s1"), Str("s3")} :
    (TerminatedSession(terminated)
       /\ Get(DispatchedParameters(last.command), "sessionId") = terminated
       /\ last.before.activeSessionId # terminated
       /\ ~Falsy(last.before.activeSessionId)) =>
      activeSessionId = last.before.activeSessionId

\* the last call was executeCommand on an atomic command, or
\* processInstruction, and it returned a failure envelope
AtomicFailure ==
  /\ \/ IsExecute /\ IsAtomic(last.command)
     \/ last.op = "processInstruction"
  /\ ~last.rejected
  /\ ~last.result.success

\* C35: an atomic executeCommand call or a processInstruction call that
\* returns a failure envelope leaves the active session id as it was before
\* the call and emits neither sessionCreated nor sessionTerminated.
C35_FailureKeepsSession ==
  AtomicFailure =>
    /\ activeSessionId = last.before.activeSessionId
    /\ EmittedOf("sessionCreated") = <<>>
    /\ EmittedOf("sessionTerminated") = <<>>

\* a session termination whose backend call failed, on an orchestrator whose
\* active session an earlier call created
C35_Witness ==
  /\ AtomicFailure
  /\ Len(backendCalls) = 1
  /\ backendCalls[1].capability = "terminateSimulatorSession"
  /\ backendCalls[1].answer.k = "throw"
  /\ last.before.activeSessionId = Str("s2")
  /\ activeSessionId = Str("s2")

\* the last call was an atomic session creation or termination that
\* succeeded and changed the session
SessionChanged ==
  /\ IsExecute
  /\ "observed" \in DOMAIN last
  /\ ~last.rejected
  /\ last.result.success
  /\ \/ last.command.type = CREATE_SIMULATOR_SESSION /\ ~Falsy(last.result.data)
     \/ last.command.type = TERMINATE_SIMULATOR_SESSION

\* C38: a successful atomic session creation or termination emits its
\* session event and then commandExecuted.  The listeners of the session
\* event find the active session id already updated and the history without
\* the command's entry; the listeners of commandExecuted find the command's
\* entry as the last one of the history.
C38_EffectOrder ==
  SessionChanged =>
    /\ Len(last.observed) = 2
    /\ last.observed[1].event
         = (IF last.command.type = CREATE_SIMULATOR_SESSION THEN "sessionCreated"
            ELSE "sessionTerminated")
    /\ last.observed[1].activeSessionId
         = (IF last.command.type = CREATE_SIMULATOR_SESSION THEN last.result.data
            ELSE NullV)
    /\ last.observed[1].activeSessionId = activeSessionId
    /\ Len(last.observed[1].commandHistory) = last.before.historyLen
    /\ last.observed[2].event = "commandExecuted"
    /\ last.observed[2].activeSessionId = activeSessionId
    /\ Len(last.observed[2].commandHistory) = last.before.historyLen + 1
    /\ last.observed[2].commandHistory[last.before.historyLen + 1]
         = [command |-> last.command.id, result |-> last.result, timestamp |-> now]
    /\ last.observed[2].commandHistory = commandHistory

\* a session creation that replaced the active session s1, after an earlier
\* call that left a history entry
C38_Witness ==
  /\ SessionChanged
  /\ last.command.type = CREATE_SIMULATOR_SESSION
  /\ last.before.activeSessionId = Str("s1")
  /\ last.before.historyLen = 1
  /\ last.observed[1].activeSessionId = Str("s2")
  /\ Len(last.observed[2].commandHistory) = 2

\* the hook calls of a command, by hook
HookCallsOf(command, hook) ==
  SelectSeq(hookCalls, LAMBDA h : h.command = command.id /\ h.hook = hook)

\* C36: for an atomic command with hooks and no explicit session id, the
\* session id its validation hook was given, the one its transformation hook
\* was given and the one the backend adapter was given are the same value,
\* whatever ran while the hooks were suspended.
C36_OneSessionPerCommand ==
  last.op = "concurrent" =>
    \A p \in Procs :
      (last.procs[p].pc \in {"backend", "done"}
         /\ last.procs[p].command.validate.k # "absent"
         /\ last.procs[p].command.transformParameters.k # "absent"
         /\ HookCallsOf(last.procs[p].command, "transformParameters") # <<>>) =>
        /\ HookCallsOf(last.procs[p].command, "validate")[1].sessionId
             = HookCallsOf(last.procs[p].command, "transformParameters")[1].sessionId
        /\ HookCallsOf(last.procs[p].command, "transformParameters")[1].sessionId
             = last.procs[p].sid

\* two session creations ran concurrently, both backend calls succeeded, both
\* calls have settled and nothing else touched the orchestrator
BothCreated ==
  /\ last.op = "concurrent"
  /\ calls = 0
  /\ \A p \in Procs :
       /\ last.procs[p].pc = "done"
       /\ last.procs[p].command.type = CREATE_SIMULATOR_SESSION
       /\ last.procs[p].answer.k = "resolve"

\* the identifiers the backend returned, in the order the calls completed
CreatedInOrder == [i \in DOMAIN last.settled |-> last.procs[last.settled[i]].answer.v]

\* C37 as claimed: after two concurrent session creations whose backend calls
\* both succeeded, the active session id is the identifier returned by the
\* call that completed last.
C37_LastIdentifierWins ==
  BothCreated => activeSessionId = CreatedInOrder[Len(CreatedInOrder)]

\* C37: after two concurrent session creations whose backend calls both
\* succeeded, the active session id is the last non-empty identifier in
\* completion order (none when both are empty), sessionCreated has been
\* emitted once for each non-empty identifier in that order, and the history
\* holds exactly one entry per command, in completion order, with the
\* command's result.
C37_ConcurrentCreations ==
  BothCreated =>
    LET named == SelectSeq(CreatedInOrder, LAMBDA v : ~Falsy(v))
        created == EmittedOf("sessionCreated")
    IN  /\ activeSessionId = (IF named = <<>> THEN NullV ELSE named[Len(named)])
        /\ [i \in DOMAIN created |-> created[i].data.sessionId] = named
        /\ Len(commandHistory) = MaxProcs
        /\ \A i \in DOMAIN commandHistory :
             /\ commandHistory[i].command = last.procs[last.settled[i]].command.id
             /\ commandHistory[i].result = last.procs[last.settled[i]].result
             /\ commandHistory[i].result.success

\* the second call's backend call was made first and settled last: its
\* identifier is the active one and its entry the last of the history
C37_Witness ==
  /\ BothCreated
  /\ backendCalls[1].command = "b2"
  /\ last.settled = <<1, 2>>
  /\ activeSessionId = Str("s3")
  /\ commandHistory[1].command = "b1"
  /\ commandHistory[2].command = "b2"
  /\ Len(EmittedOf("sessionCreated")) = 2

\* the names of the catalog's definitions
CatalogNames == { getSupportedCommands[i].command : i \in DOMAIN getSupportedCommands }

\* the command kinds that perform the operation a catalog name stands for,
\* none for the operations no command kind performs
OperationKinds(name, parameters) ==
  CASE name = "create session" -> {CREATE_SIMULATOR_SESSION}
    [] name = "end session" -> {TERMINATE_SIMULATOR_SESSION}
    [] name = "list simulators" -> {LIST_AVAILABLE_SIMULATORS}
    [] name = "list booted simulators" -> {LIST_BOOTED_SIMULATORS}
    [] name = "boot simulator" -> {BOOT_SIMULATOR}
    [] name = "shutdown simulator" -> {SHUTDOWN_SIMULATOR}
    [] name = "install app" -> {INSTALL_APP}
    [] name = "launch app" -> {LAUNCH_APP}
    [] name = "terminate app" -> {TERMINATE_APP}
    [] name = "tap" -> {TAP}
    [] name = "swipe" -> {SWIPE}
    [] name = "capture screen" -> {TAKE_SCREENSHOT}
    [] name = "get logs" ->
         IF "bundleId" \in DOMAIN parameters THEN {GET_APP_LOGS} ELSE {GET_SYSTEM_LOGS}
    [] OTHER -> {}

\* C39: for every command name of the catalog, convertToCommand either
\* throws the mapping error or makes a command of a kind that performs the
\* operation the name stands for.
C39_SameOperation ==
  (IsConvert /\ last.parseResult.command \in CatalogNames
     /\ last.outcome.k = "resolve") =>
    last.outcome.v.type
      \in OperationKinds(last.parseResult.command, last.parseResult.parameters)

\* the call on the tree has resolved
TreeResolved == last.op = "tree" /\ last.stack = <<>> /\ last.returned.k = "value"

\* what executeCommand, evaluated as one function, gives for the same tree
\* and the same backend answers
TreeAtOnce ==
  executeCommand(last.command,
                 [Entry EXCEPT !.activeSessionId = NullV, !.commandHistory = <<>>],
                 [oracle |-> last.oracle, now |-> now])

\* no node was visited twice, every leaf made at most one backend call, and
\* a resolved call agrees with executeCommand evaluated as one function
TreeBounded ==
  last.op = "tree" =>
    /\ \A i, j \in DOMAIN last.visits : last.visits[i] = last.visits[j] => i = j
    /\ \A i \in DOMAIN last.leafCalls : last.leafCalls[i].calls <= 1
    /\ Len(backendCalls) <= Len(last.leafCalls)
    /\ Len(last.leafCalls) <= Leaves(last.command)
    /\ TreeResolved =>
         /\ last.returned.v = TreeAtOnce.res
         /\ backendCalls = TreeAtOnce.st.backendCalls
         /\ commandHistory = TreeAtOnce.st.commandHistory
         /\ hookCalls = TreeAtOnce.st.hookCalls

\* C40: executeCommand on a finite command tree whose hooks and backend
\* calls all return eventually resolves; on the way no child of a sequence or
\* branch of a conditional is visited more than once and no atomic leaf
\* makes more than one backend call.
C40_TreeTerminates ==
  /\ [](calls = 1 => <>TreeResolved)
  /\ []TreeBounded

\* a tree three levels deep has resolved after three backend calls
C40_Witness ==
  /\ TreeResolved
  /\ last.command.id = "r"
  /\ Len(last.visits) = 5
  /\ Len(backendCalls) = 3
  /\ \E i \in DOMAIN last.visits : Len(last.visits[i]) = 3

====
